---------------------------- MODULE Spec2Model ----------------------------
(***************************************************************************)
(* Command-execution core of the Kontent.ai data-ops custom app: the rate  *)
(* limiter, the option sanitizer, the command validator, the argument      *)
(* builder and the POST /api/execute stream relay.                         *)
(*                                                                         *)
(* Text is modelled as a sequence of one-character strings ("NUL" stands   *)
(* for the NUL character), so trimming, splitting, searching and case      *)
(* folding are computed and not assumed.                                   *)
(***************************************************************************)
EXTENDS Integers, Sequences, FiniteSets, TLC

(***************************************************************************)
(* Bounds of the model.                                                    *)
(***************************************************************************)
\* Sliding window of the rate limiter, in clock ticks (60000 ms in
\* rateLimit.ts, 1000 ms in the rate limiter scenario of the specification).
RATE_LIMIT_WINDOW == 3
\* Admitted requests per window and client (30 in rateLimit.ts).
RATE_LIMIT_MAX_REQUESTS == 3
\* Minimum spacing of progress messages, in clock ticks (500 ms in routes.ts).
PROGRESS_INTERVAL == 2
\* The clock stops advancing this many ticks after the start.
MaxTicks == 3
\* Data events (stdout and stderr together) one child process delivers.
MaxChunks == 2
\* 'error' events one child process emits.
MaxErrors == 1
\* Admission checks recorded per client.
MaxChecks == 6

\* Date.now() at server start: far enough from 0 that the first progress
\* message of an execution is never throttled against lastProgressUpdate = 0.
StartTime == PROGRESS_INTERVAL + RATE_LIMIT_WINDOW + 1
MaxTime == StartTime + MaxTicks

(***************************************************************************)
(* Strings.                                                                *)
(***************************************************************************)
ToLowerChar(c) ==
  CASE c = "A" -> "a" [] c = "B" -> "b" [] c = "C" -> "c" [] c = "D" -> "d"
    [] c = "E" -> "e" [] c = "F" -> "f" [] c = "G" -> "g" [] c = "H" -> "h"
    [] c = "I" -> "i" [] c = "J" -> "j" [] c = "K" -> "k" [] c = "L" -> "l"
    [] c = "M" -> "m" [] c = "N" -> "n" [] c = "O" -> "o" [] c = "P" -> "p"
    [] c = "Q" -> "q" [] c = "R" -> "r" [] c = "S" -> "s" [] c = "T" -> "t"
    [] c = "U" -> "u" [] c = "V" -> "v" [] c = "W" -> "w" [] c = "X" -> "x"
    [] c = "Y" -> "y" [] c = "Z" -> "z" [] OTHER -> c

IsUpperChar(c) == ToLowerChar(c) # c

IsHexChar(c) ==
  ToLowerChar(c) \in {"0", "1", "2", "3", "4", "5", "6", "7", "8", "9",
                      "a", "b", "c", "d", "e", "f"}

IsSpaceChar(c) == c \in {" ", "\t", "\n", "\r"}

toLowerCase(s) == [i \in 1..Len(s) |-> ToLowerChar(s[i])]

RECURSIVE trimStart(_)
trimStart(s) ==
  IF s # <<>> /\ IsSpaceChar(Head(s)) THEN trimStart(Tail(s)) ELSE s

RECURSIVE trimEnd(_)
trimEnd(s) ==
  IF s # <<>> /\ IsSpaceChar(s[Len(s)])
    THEN trimEnd(SubSeq(s, 1, Len(s) - 1))
    ELSE s

\* A trim that removes nothing.
trimNothing(s) == s

trim(s) == trimEnd(trimStart(s))

\* sub occurs in s at offset i (0-based).
OccursAt(s, sub, i) ==
  /\ i + Len(sub) <= Len(s)
  /\ SubSeq(s, i + 1, i + Len(sub)) = sub

includes(s, sub) == \E i \in 0..Len(s) : OccursAt(s, sub, i)

startsWith(s, p) == OccursAt(s, p, 0)

RECURSIVE split(_, _)
split(s, sep) ==
  IF \E i \in 1..Len(s) : s[i] = sep
    THEN LET i == CHOOSE k \in 1..Len(s) :
                    s[k] = sep /\ \A j \in 1..(k - 1) : s[j] # sep
         IN  <<SubSeq(s, 1, i - 1)>> \o split(SubSeq(s, i + 1, Len(s)), sep)
    ELSE <<s>>

RECURSIVE join(_, _)
join(parts, sep) ==
  IF parts = <<>> THEN <<>>
  ELSE IF Len(parts) = 1 THEN parts[1]
  ELSE parts[1] \o sep \o join(Tail(parts), sep)

RECURSIVE SelectLines(_)
\* lines.filter(line => line.trim())
SelectLines(lines) ==
  IF lines = <<>> THEN <<>>
  ELSE IF trim(Head(lines)) # <<>>
    THEN <<Head(lines)>> \o SelectLines(Tail(lines))
    ELSE SelectLines(Tail(lines))

(***************************************************************************)
(* JavaScript values of a request body: one record shape for all types.   *)
(***************************************************************************)
Undefined == [t |-> "undefined", s |-> <<>>, b |-> FALSE, a |-> <<>>, o |-> <<>>]
Str(s) == [t |-> "string", s |-> s, b |-> FALSE, a |-> <<>>, o |-> <<>>]
Bool(b) == [t |-> "boolean", s |-> <<>>, b |-> b, a |-> <<>>, o |-> <<>>]
Arr(a) == [t |-> "array", s |-> <<>>, b |-> FALSE, a |-> a, o |-> <<>>]
\* An object is the sequence of its own entries [key, value] in insertion order.
Obj(o) == [t |-> "object", s |-> <<>>, b |-> FALSE, a |-> <<>>, o |-> o]

Null == [t |-> "null", s |-> <<>>, b |-> FALSE, a |-> <<>>, o |-> <<>>]

Entry(k, v) == [key |-> k, value |-> v]

\* A truthiness that takes every string, the empty one too, for true.
TruthyAnyString(v) ==
  CASE v.t = "string" -> TRUE
    [] v.t = "boolean" -> v.b
    [] v.t = "array" -> TRUE
    [] v.t = "object" -> TRUE
    [] OTHER -> FALSE

\* JavaScript truthiness.
Truthy(v) ==
  CASE v.t = "string" -> v.s # <<>>
    [] v.t = "boolean" -> v.b
    [] v.t = "array" -> TRUE
    [] v.t = "object" -> TRUE
    [] OTHER -> FALSE

\* options[key]
Get(options, key) ==
  IF \E i \in 1..Len(options) : options[i].key = key
    THEN options[CHOOSE i \in 1..Len(options) : options[i].key = key].value
    ELSE Undefined

(***************************************************************************)
(* Text constants of the validation code.                                  *)
(***************************************************************************)
S_environmentid ==
  <<"e", "n", "v", "i", "r", "o", "n", "m", "e", "n", "t", "i", "d">>

S_environment_id ==
  <<"e", "n", "v", "i", "r", "o", "n", "m", "e", "n", "t", "_", "i", "d">>

S_apikey ==
  <<"a", "p", "i", "k", "e", "y">>

S_api_key ==
  <<"a", "p", "i", "_", "k", "e", "y">>

S_filename ==
  <<"f", "i", "l", "e", "n", "a", "m", "e">>

S_file_name ==
  <<"f", "i", "l", "e", "_", "n", "a", "m", "e">>

S_outpath ==
  <<"o", "u", "t", "p", "a", "t", "h">>

S_folder ==
  <<"f", "o", "l", "d", "e", "r">>

S_dotdot ==
  <<".", ".">>

W_environment ==
  <<"e", "n", "v", "i", "r", "o", "n", "m", "e", "n", "t">>

W_backup ==
  <<"b", "a", "c", "k", "u", "p">>

W_restore ==
  <<"r", "e", "s", "t", "o", "r", "e">>

W_clean ==
  <<"c", "l", "e", "a", "n">>

W_sync ==
  <<"s", "y", "n", "c">>

W_run ==
  <<"r", "u", "n">>

W_snapshot ==
  <<"s", "n", "a", "p", "s", "h", "o", "t">>

W_diff ==
  <<"d", "i", "f", "f">>

W_migrate_content ==
  <<"m", "i", "g", "r", "a", "t", "e", "-", "c", "o", "n", "t", "e", "n", "t">>

W_migrations ==
  <<"m", "i", "g", "r", "a", "t", "i", "o", "n", "s">>

K_environmentId ==
  <<"e", "n", "v", "i", "r", "o", "n", "m", "e", "n", "t", "I", "d">>

K_apiKey ==
  <<"a", "p", "i", "K", "e", "y">>

K_fileName ==
  <<"f", "i", "l", "e", "N", "a", "m", "e">>

K_targetEnvironmentId ==
  <<"t", "a", "r", "g", "e", "t", "E", "n", "v", "i", "r", "o", "n", "m", "e", "n", "t", "I",
    "d">>

K_targetApiKey ==
  <<"t", "a", "r", "g", "e", "t", "A", "p", "i", "K", "e", "y">>

K_entities ==
  <<"e", "n", "t", "i", "t", "i", "e", "s">>

K_sourceEnvironmentId ==
  <<"s", "o", "u", "r", "c", "e", "E", "n", "v", "i", "r", "o", "n", "m", "e", "n", "t", "I",
    "d">>

K_sourceApiKey ==
  <<"s", "o", "u", "r", "c", "e", "A", "p", "i", "K", "e", "y">>

K_folderName ==
  <<"f", "o", "l", "d", "e", "r", "N", "a", "m", "e">>

K_advanced ==
  <<"a", "d", "v", "a", "n", "c", "e", "d">>

K_outPath ==
  <<"o", "u", "t", "P", "a", "t", "h">>

(***************************************************************************)
(* validation.ts                                                           *)
(***************************************************************************)
\* A sanitizer that removes one space from the front of a string.
sanitizeInputOneSpace(input) ==
  IF input.t # "string" THEN input
  ELSE IF input.s # <<>> /\ Head(input.s) = " " THEN Str(Tail(input.s))
  ELSE input

\* sanitizeInput: strings are trimmed, every other value is returned as is.
sanitizeInput(input) ==
  IF input.t # "string" THEN input ELSE Str(trim(input.s))

\* /^[0-9a-f]{8}-[0-9a-f]{4}-[0-9a-f]{4}-[0-9a-f]{4}-[0-9a-f]{12}$/i
MatchesUuid(s) ==
  /\ Len(s) = 36
  /\ \A i \in 1..36 :
       IF i \in {9, 14, 19, 24} THEN s[i] = "-" ELSE IsHexChar(s[i])

validateEnvironmentId(envId) ==
  IF ~Truthy(envId) \/ envId.t # "string" THEN FALSE
  ELSE \E trimmed \in {trim(envId.s)} : MatchesUuid(trimmed)

validateApiKey(apiKey, minLength) ==
  IF ~Truthy(apiKey) \/ apiKey.t # "string" THEN FALSE
  ELSE Len(trim(apiKey.s)) >= minLength

RECURSIVE normalizeSegments(_, _, _)
\* normalizeString of Node's path module, on the '/'-separated segments:
\* resolves "." and ".." segments and empty segments.
normalizeSegments(segs, res, allowAboveRoot) ==
  IF segs = <<>> THEN res
  ELSE LET seg == Head(segs)
           rest == Tail(segs)
       IN  IF seg = <<>> \/ seg = <<".">>
             THEN normalizeSegments(rest, res, allowAboveRoot)
           ELSE IF seg = S_dotdot
             THEN IF res # <<>> /\ res[Len(res)] # S_dotdot
                    THEN normalizeSegments(rest, SubSeq(res, 1, Len(res) - 1),
                                           allowAboveRoot)
                  ELSE IF allowAboveRoot
                    THEN normalizeSegments(rest, Append(res, S_dotdot),
                                           allowAboveRoot)
                  ELSE normalizeSegments(rest, res, allowAboveRoot)
           ELSE normalizeSegments(rest, Append(res, seg), allowAboveRoot)

\* path.normalize (POSIX).
pathNormalize(p) ==
  IF Len(p) = 0 THEN <<".">>
  ELSE LET isAbsolute == p[1] = "/"
           trailingSeparator == p[Len(p)] = "/"
           norm == join(normalizeSegments(split(p, "/"), <<>>, ~isAbsolute),
                        <<"/">>)
       IN  IF Len(norm) = 0
             THEN IF isAbsolute THEN <<"/">>
                  ELSE IF trailingSeparator THEN <<".", "/">> ELSE <<".">>
           ELSE (IF isAbsolute THEN <<"/">> ELSE <<>>) \o norm
                \o (IF trailingSeparator THEN <<"/">> ELSE <<>>)

validateFilePath(filePath, maxLength) ==
  IF ~Truthy(filePath) \/ filePath.t # "string" THEN FALSE
  ELSE \E normalized \in {pathNormalize(filePath.s)} :
         /\ ~includes(normalized, S_dotdot)
         /\ Len(normalized) > 0
         /\ Len(normalized) < maxLength

\* Default arguments of validateApiKey and validateFilePath.
DefaultMinLength == 10
DefaultMaxLength == 500

Valid == [valid |-> TRUE, message |-> "", detail |-> <<>>]
Invalid(m, d) == [valid |-> FALSE, message |-> m, detail |-> d]

\* A validator that asks for sourceApiKey only when no folder is given.
validateCommandOptionsFolderExcusesKey(command, options) ==
  LET commandParts == split(command, " ")
      mainCommand == commandParts[1]
      subCommand == IF Len(commandParts) >= 2 THEN commandParts[2] ELSE <<"undefined">>
      opt(k) == Get(options, k)
      noEntities == \/ ~Truthy(opt(K_entities))
                    \/ opt(K_entities).t # "array"
                    \/ Len(opt(K_entities).a) = 0
  IN
  IF mainCommand = W_environment THEN
    IF subCommand = W_backup THEN
      IF ~Truthy(opt(K_environmentId)) \/ ~Truthy(opt(K_apiKey))
        THEN Invalid("environmentId and apiKey are required for environment backup", <<>>)
        ELSE Valid
    ELSE IF subCommand = W_restore THEN
      IF ~Truthy(opt(K_environmentId)) \/ ~Truthy(opt(K_apiKey)) \/ ~Truthy(opt(K_fileName))
        THEN Invalid("environmentId, apiKey, and fileName are required for environment restore", <<>>)
        ELSE Valid
    ELSE IF subCommand = W_clean THEN
      IF ~Truthy(opt(K_environmentId)) \/ ~Truthy(opt(K_apiKey))
        THEN Invalid("environmentId and apiKey are required for environment clean", <<>>)
        ELSE Valid
    ELSE Valid
  ELSE IF mainCommand = W_sync THEN
    IF subCommand = W_run THEN
      IF ~Truthy(opt(K_targetEnvironmentId)) \/ ~Truthy(opt(K_targetApiKey)) \/ noEntities
        THEN Invalid("targetEnvironmentId, targetApiKey, and entities are required for sync run", <<>>)
      ELSE IF ~Truthy(opt(K_sourceEnvironmentId)) /\ ~Truthy(opt(K_folderName))
        THEN Invalid("Either sourceEnvironmentId+sourceApiKey or folderName is required for sync run", <<>>)
      ELSE IF /\ Truthy(opt(K_sourceEnvironmentId)) /\ ~Truthy(opt(K_sourceApiKey))
              /\ ~Truthy(opt(K_folderName))
        THEN Invalid("sourceApiKey is required when using sourceEnvironmentId", <<>>)
      ELSE Valid
    ELSE IF subCommand = W_snapshot THEN
      IF ~Truthy(opt(K_environmentId)) \/ ~Truthy(opt(K_apiKey)) \/ noEntities
        THEN Invalid("environmentId, apiKey, and entities are required for sync snapshot", <<>>)
        ELSE Valid
    ELSE IF subCommand = W_diff THEN
      IF ~Truthy(opt(K_targetEnvironmentId)) \/ ~Truthy(opt(K_targetApiKey))
        THEN Invalid("targetEnvironmentId and targetApiKey are required for sync diff", <<>>)
      ELSE IF ~Truthy(opt(K_sourceEnvironmentId)) /\ ~Truthy(opt(K_folderName))
        THEN Invalid("Either sourceEnvironmentId+sourceApiKey or folderName is required for sync diff", <<>>)
      ELSE IF /\ Truthy(opt(K_sourceEnvironmentId)) /\ ~Truthy(opt(K_sourceApiKey))
              /\ ~Truthy(opt(K_folderName))
        THEN Invalid("sourceApiKey is required when using sourceEnvironmentId", <<>>)
      ELSE IF /\ Truthy(opt(K_advanced))
              /\ \/ ~Truthy(opt(K_outPath))
                 \/ (opt(K_outPath).t = "string" /\ trim(opt(K_outPath).s) = <<>>)
        THEN Invalid("outPath is required when advanced option is enabled", <<>>)
      ELSE Valid
    ELSE Valid
  ELSE IF mainCommand = W_migrate_content \/ mainCommand = W_migrations THEN Valid
  ELSE Invalid("Unknown command: ", command)

validateCommandOptions(command, options) ==
  LET commandParts == split(command, " ")
      mainCommand == commandParts[1]
      subCommand == IF Len(commandParts) >= 2 THEN commandParts[2] ELSE <<"undefined">>
      opt(k) == Get(options, k)
      noEntities == \/ ~Truthy(opt(K_entities))
                    \/ opt(K_entities).t # "array"
                    \/ Len(opt(K_entities).a) = 0
  IN
  IF mainCommand = W_environment THEN
    IF subCommand = W_backup THEN
      IF ~Truthy(opt(K_environmentId)) \/ ~Truthy(opt(K_apiKey))
        THEN Invalid("environmentId and apiKey are required for environment backup", <<>>)
        ELSE Valid
    ELSE IF subCommand = W_restore THEN
      IF ~Truthy(opt(K_environmentId)) \/ ~Truthy(opt(K_apiKey)) \/ ~Truthy(opt(K_fileName))
        THEN Invalid("environmentId, apiKey, and fileName are required for environment restore", <<>>)
        ELSE Valid
    ELSE IF subCommand = W_clean THEN
      IF ~Truthy(opt(K_environmentId)) \/ ~Truthy(opt(K_apiKey))
        THEN Invalid("environmentId and apiKey are required for environment clean", <<>>)
        ELSE Valid
    ELSE Valid
  ELSE IF mainCommand = W_sync THEN
    IF subCommand = W_run THEN
      IF ~Truthy(opt(K_targetEnvironmentId)) \/ ~Truthy(opt(K_targetApiKey)) \/ noEntities
        THEN Invalid("targetEnvironmentId, targetApiKey, and entities are required for sync run", <<>>)
      ELSE IF ~Truthy(opt(K_sourceEnvironmentId)) /\ ~Truthy(opt(K_folderName))
        THEN Invalid("Either sourceEnvironmentId+sourceApiKey or folderName is required for sync run", <<>>)
      ELSE IF Truthy(opt(K_sourceEnvironmentId)) /\ ~Truthy(opt(K_sourceApiKey))
        THEN Invalid("sourceApiKey is required when using sourceEnvironmentId", <<>>)
      ELSE Valid
    ELSE IF subCommand = W_snapshot THEN
      IF ~Truthy(opt(K_environmentId)) \/ ~Truthy(opt(K_apiKey)) \/ noEntities
        THEN Invalid("environmentId, apiKey, and entities are required for sync snapshot", <<>>)
        ELSE Valid
    ELSE IF subCommand = W_diff THEN
      IF ~Truthy(opt(K_targetEnvironmentId)) \/ ~Truthy(opt(K_targetApiKey))
        THEN Invalid("targetEnvironmentId and targetApiKey are required for sync diff", <<>>)
      ELSE IF ~Truthy(opt(K_sourceEnvironmentId)) /\ ~Truthy(opt(K_folderName))
        THEN Invalid("Either sourceEnvironmentId+sourceApiKey or folderName is required for sync diff", <<>>)
      ELSE IF Truthy(opt(K_sourceEnvironmentId)) /\ ~Truthy(opt(K_sourceApiKey))
        THEN Invalid("sourceApiKey is required when using sourceEnvironmentId", <<>>)
      ELSE IF /\ Truthy(opt(K_advanced))
              /\ \/ ~Truthy(opt(K_outPath))
                 \/ (opt(K_outPath).t = "string" /\ trim(opt(K_outPath).s) = <<>>)
        THEN Invalid("outPath is required when advanced option is enabled", <<>>)
      ELSE Valid
    ELSE Valid
  ELSE IF mainCommand = W_migrate_content \/ mainCommand = W_migrations THEN Valid
  ELSE Invalid("Unknown command: ", command)

\* The violations validateAndSanitizeOptions records for one entry, in order.
EntryErrors(e) ==
  LET key == toLowerCase(e.key)
      value == e.value
  IN  IF startsWith(e.key, <<"_">>) THEN <<>>
      ELSE
        (IF /\ includes(key, S_environmentid) \/ includes(key, S_environment_id)
            /\ Truthy(value) /\ ~validateEnvironmentId(value)
           THEN <<[key |-> e.key, rule |-> " must be a valid UUID format"]>>
           ELSE <<>>)
        \o
        (IF /\ includes(key, S_apikey) \/ includes(key, S_api_key)
            /\ Truthy(value) /\ ~validateApiKey(value, DefaultMinLength)
           THEN <<[key |-> e.key, rule |-> " appears to be invalid"]>>
           ELSE <<>>)
        \o
        (IF /\ \/ includes(key, S_filename) \/ includes(key, S_file_name)
               \/ includes(key, S_outpath) \/ includes(key, S_folder)
            /\ Truthy(value) /\ ~validateFilePath(value, DefaultMaxLength)
           THEN <<[key |-> e.key,
                   rule |-> " contains invalid characters or path traversal attempt"]>>
           ELSE <<>>)

\* An entry whose value is trimmed whatever its key.
SanitizeEntryInternalToo(e) ==
  Entry(e.key, sanitizeInput(e.value))

SanitizeEntry(e) ==
  IF startsWith(e.key, <<"_">>) THEN e
  ELSE Entry(e.key, sanitizeInput(e.value))

RECURSIVE AllErrorsFirstEntry(_)
\* A loop that stops at the first entry with a violation.
AllErrorsFirstEntry(entries) ==
  IF entries = <<>> THEN <<>>
  ELSE IF EntryErrors(Head(entries)) # <<>> THEN EntryErrors(Head(entries))
  ELSE AllErrorsFirstEntry(Tail(entries))

RECURSIVE AllErrors(_)
AllErrors(entries) ==
  IF entries = <<>> THEN <<>>
  ELSE EntryErrors(Head(entries)) \o AllErrors(Tail(entries))

\* validateAndSanitizeOptions: the sanitized mapping, or the thrown
\* 'Validation errors: ...' with every recorded violation.
validateAndSanitizeOptions(command, options) ==
  LET errors == AllErrors(options)
  IN  IF Len(errors) > 0
        THEN [threw |-> TRUE, errors |-> errors, sanitized |-> <<>>]
        ELSE [threw |-> FALSE, errors |-> <<>>,
              sanitized |-> [i \in 1..Len(options) |-> SanitizeEntry(options[i])]]

(***************************************************************************)
(* commands.ts                                                             *)
(***************************************************************************)
RECURSIVE kebabCase(_)
\* key.replace(/([A-Z])/g, '-$1').toLowerCase()
kebabCase(key) ==
  IF key = <<>> THEN <<>>
  ELSE (IF IsUpperChar(Head(key))
          THEN <<"-", ToLowerChar(Head(key))>>
          ELSE <<ToLowerChar(Head(key))>>) \o kebabCase(Tail(key))

Flag(key) == <<"-", "-">> \o kebabCase(key)

RECURSIVE RepeatFlagOnce(_, _)
\* The flag pushed once, before the first value only.
RepeatFlagOnce(flag, values) ==
  IF values = <<>> THEN <<>>
  ELSE <<flag>> \o values

RECURSIVE RepeatFlag(_, _)
RepeatFlag(flag, values) ==
  IF values = <<>> THEN <<>>
  ELSE <<flag, Head(values)>> \o RepeatFlag(flag, Tail(values))

\* The tokens buildDataOpsArgs pushes for one entry.
EntryArgs(e) ==
  LET value == e.value
  IN  IF value.t \in {"null", "undefined"} \/ (value.t = "string" /\ value.s = <<>>)
        THEN <<>>
      ELSE IF startsWith(e.key, <<"_">>) THEN <<>>
      ELSE IF value.t = "boolean"
        THEN IF value.b THEN <<Flag(e.key)>> ELSE <<>>
      ELSE IF value.t = "array" THEN RepeatFlag(Flag(e.key), value.a)
      ELSE IF value.t = "object" THEN <<>>
      ELSE <<Flag(e.key), value.s>>

RECURSIVE OptionArgsReversed(_)
\* The entries visited from the last to the first.
OptionArgsReversed(entries) ==
  IF entries = <<>> THEN <<>>
  ELSE OptionArgsReversed(Tail(entries)) \o EntryArgs(Head(entries))

RECURSIVE OptionArgs(_)
OptionArgs(entries) ==
  IF entries = <<>> THEN <<>>
  ELSE EntryArgs(Head(entries)) \o OptionArgs(Tail(entries))

buildDataOpsArgs(command, options) ==
  split(command, " ") \o OptionArgs(options)

(***************************************************************************)
(* rateLimit.ts                                                            *)
(***************************************************************************)
\* checkRateLimit with a window that still counts a request made exactly one
\* window ago.
checkRateLimitInclusive(map, ip, t) ==
  LET recentRequests ==
        SelectSeq(map[ip], LAMBDA timestamp : t - timestamp <= RATE_LIMIT_WINDOW)
  IN  IF Len(recentRequests) >= RATE_LIMIT_MAX_REQUESTS
        THEN [allowed |-> FALSE, map |-> map]
        ELSE [allowed |-> TRUE,
              map |-> [map EXCEPT ![ip] = Append(recentRequests, t)]]

\* checkRateLimit storing the pruned list under every key.
checkRateLimitGlobal(map, ip, t) ==
  LET recentRequests ==
        SelectSeq(map[ip], LAMBDA timestamp : t - timestamp < RATE_LIMIT_WINDOW)
  IN  IF Len(recentRequests) >= RATE_LIMIT_MAX_REQUESTS
        THEN [allowed |-> FALSE, map |-> map]
        ELSE [allowed |-> TRUE,
              map |-> [c \in DOMAIN map |-> Append(recentRequests, t)]]

\* checkRateLimit that stores the timestamp of a rejected request too.
checkRateLimitRecordsRejected(map, ip, t) ==
  LET recentRequests ==
        SelectSeq(map[ip], LAMBDA timestamp : t - timestamp < RATE_LIMIT_WINDOW)
  IN  [allowed |-> Len(recentRequests) < RATE_LIMIT_MAX_REQUESTS,
       map |-> [map EXCEPT ![ip] = Append(recentRequests, t)]]

\* checkRateLimit at clock value t: the verdict and the map it leaves.
checkRateLimit(map, ip, t) ==
  LET userRequests == map[ip]
      recentRequests ==
        SelectSeq(userRequests, LAMBDA timestamp : t - timestamp < RATE_LIMIT_WINDOW)
  IN  IF Len(recentRequests) >= RATE_LIMIT_MAX_REQUESTS
        THEN [allowed |-> FALSE, map |-> map]
        ELSE [allowed |-> TRUE,
              map |-> [map EXCEPT ![ip] = Append(recentRequests, t)]]

(***************************************************************************)
(* Requests, child output and progress stages used as inputs.              *)
(***************************************************************************)
Cmd_environment_backup ==
  <<"e", "n", "v", "i", "r", "o", "n", "m", "e", "n", "t", " ", "b", "a", "c", "k", "u", "p">>

Cmd_environment_restore ==
  <<"e", "n", "v", "i", "r", "o", "n", "m", "e", "n", "t", " ", "r", "e", "s", "t", "o", "r",
    "e">>

Cmd_sync_run ==
  <<"s", "y", "n", "c", " ", "r", "u", "n">>

Cmd_invalid_command ==
  <<"i", "n", "v", "a", "l", "i", "d", " ", "c", "o", "m", "m", "a", "n", "d">>

Cmd_backup ==
  <<"b", "a", "c", "k", "u", "p">>

V_uuid ==
  <<"1", "2", "3", "e", "4", "5", "6", "7", "-", "e", "8", "9", "b", "-", "1", "2", "d", "3",
    "-", "a", "4", "5", "6", "-", "4", "2", "6", "6", "1", "4", "1", "7", "4", "0", "0", "0">>

V_apiKey ==
  <<"v", "a", "l", "i", "d", "-", "a", "p", "i", "-", "k", "e", "y", "-", "1", "2", "3", "4",
    "5", "6", "7", "8", "9", "0">>

V_traversal ==
  <<".", ".", "/", ".", ".", "/", "e", "t", "c", "/", "p", "a", "s", "s", "w", "d">>

V_folder ==
  <<"s", "n", "a", "p", "s", "h", "o", "t">>

V_contentTypes ==
  <<"c", "o", "n", "t", "e", "n", "t", "T", "y", "p", "e", "s">>

Chunk_backup ==
  <<"S", "t", "a", "r", "t", "i", "n", "g", " ", "b", "a", "c", "k", "u", "p", "\n", "R", "e",
    "t", "r", "i", "e", "v", "i", "n", "g", " ", "i", "t", "e", "m", "s", "\n">>

Chunk_finished ==
  <<"f", "i", "n", "i", "s", "h", "e", "d">>

Chunk_sync ==
  <<"C", "o", "m", "p", "a", "r", "i", "n", "g", "\n", "\n", "s", "y", "n", "c", " ", " ", "c",
    "o", "m", "p", "l", "e", "t", "e">>

Chunk_warn ==
  <<"w", "a", "r", "n", "\n", " ", "\n", "f", "a", "i", "l", "e", "d">>

\* progressStages: each pattern is the sequence of its alternatives, an
\* alternative the sequence of literals that '.*' separates; all are matched
\* ignoring case.
progressStages(command) ==
  CASE command = Cmd_environment_backup ->
    <<
       [pattern |->
          <<<<<<"b", "a", "c", "k", "i", "n", "g", " ", "u", "p">>>>, <<<<"s", "t", "a", "r", "t", "i", "n", "g", " ", "b", "a", "c", "k", "u", "p">>>>>>,
        percent |-> 10, stage |-> "Starting backup..."],
       [pattern |->
          <<<<<<"f", "e", "t", "c", "h", "i", "n", "g">>, <<"c", "o", "n", "t", "e", "n", "t">>>>, <<<<"r", "e", "t", "r", "i", "e", "v", "i", "n", "g">>>>>>,
        percent |-> 30, stage |-> "Fetching content..."],
       [pattern |->
          <<<<<<"p", "r", "o", "c", "e", "s", "s", "i", "n", "g">>, <<"a", "s", "s", "e", "t", "s">>>>, <<<<"d", "o", "w", "n", "l", "o", "a", "d", "i", "n", "g">>, <<"a", "s", "s", "e", "t", "s">>>>>>,
        percent |-> 50, stage |-> "Processing assets..."],
       [pattern |->
          <<<<<<"c", "r", "e", "a", "t", "i", "n", "g">>, <<"z", "i", "p">>>>, <<<<"c", "o", "m", "p", "r", "e", "s", "s", "i", "n", "g">>>>>>,
        percent |-> 80, stage |-> "Creating backup file..."],
       [pattern |->
          <<<<<<"b", "a", "c", "k", "u", "p">>, <<"c", "o", "m", "p", "l", "e", "t", "e">>>>, <<<<"f", "i", "n", "i", "s", "h", "e", "d">>>>>>,
        percent |-> 100, stage |-> "Backup complete!"]
    >>
    [] command = Cmd_environment_restore ->
    <<
       [pattern |->
          <<<<<<"r", "e", "s", "t", "o", "r", "i", "n", "g">>>>, <<<<"s", "t", "a", "r", "t", "i", "n", "g", " ", "r", "e", "s", "t", "o", "r", "e">>>>>>,
        percent |-> 10, stage |-> "Starting restore..."],
       [pattern |->
          <<<<<<"e", "x", "t", "r", "a", "c", "t", "i", "n", "g">>>>, <<<<"u", "n", "z", "i", "p", "p", "i", "n", "g">>>>>>,
        percent |-> 20, stage |-> "Extracting backup..."],
       [pattern |->
          <<<<<<"u", "p", "l", "o", "a", "d", "i", "n", "g">>>>, <<<<"i", "m", "p", "o", "r", "t", "i", "n", "g">>>>>>,
        percent |-> 50, stage |-> "Importing data..."],
       [pattern |->
          <<<<<<"r", "e", "s", "t", "o", "r", "e">>, <<"c", "o", "m", "p", "l", "e", "t", "e">>>>, <<<<"f", "i", "n", "i", "s", "h", "e", "d">>>>>>,
        percent |-> 100, stage |-> "Restore complete!"]
    >>
    [] command = Cmd_sync_run ->
    <<
       [pattern |->
          <<<<<<"s", "y", "n", "c", "i", "n", "g">>>>, <<<<"s", "t", "a", "r", "t", "i", "n", "g", " ", "s", "y", "n", "c">>>>>>,
        percent |-> 10, stage |-> "Starting sync..."],
       [pattern |->
          <<<<<<"c", "o", "m", "p", "a", "r", "i", "n", "g">>>>, <<<<"a", "n", "a", "l", "y", "z", "i", "n", "g">>>>>>,
        percent |-> 30, stage |-> "Comparing environments..."],
       [pattern |->
          <<<<<<"a", "p", "p", "l", "y", "i", "n", "g">>, <<"c", "h", "a", "n", "g", "e", "s">>>>, <<<<"u", "p", "d", "a", "t", "i", "n", "g">>>>>>,
        percent |-> 60, stage |-> "Applying changes..."],
       [pattern |->
          <<<<<<"s", "y", "n", "c">>, <<"c", "o", "m", "p", "l", "e", "t", "e">>>>, <<<<"f", "i", "n", "i", "s", "h", "e", "d">>>>>>,
        percent |-> 100, stage |-> "Sync complete!"]
    >>
    [] OTHER -> <<>>

\* Request bodies {command, options} a client may post.
Requests ==
  << \* 1: the end-to-end scenario of the specification
     [command |-> Str(Cmd_environment_backup),
      options |-> Obj(<<Entry(K_environmentId, Str(V_uuid)),
                        Entry(K_apiKey, Str(V_apiKey))>>)],
     \* 2: the same command without apiKey
     [command |-> Str(Cmd_environment_backup),
      options |-> Obj(<<Entry(K_environmentId, Str(V_uuid))>>)],
     \* 3: unknown command (server.test.js: should validate command format)
     [command |-> Str(Cmd_invalid_command), options |-> Obj(<<>>)],
     \* 4: no required option (server.test.js: should validate required options)
     [command |-> Str(Cmd_environment_backup), options |-> Obj(<<>>)],
     \* 5: path traversal (server.test.js: should validate file path format)
     [command |-> Str(Cmd_environment_backup),
      options |-> Obj(<<Entry(K_environmentId, Str(V_uuid)),
                        Entry(K_apiKey, Str(V_apiKey)),
                        Entry(K_fileName, Str(V_traversal))>>)],
     \* 6: sync from a snapshot folder
     [command |-> Str(Cmd_sync_run),
      options |-> Obj(<<Entry(K_targetEnvironmentId, Str(V_uuid)),
                        Entry(K_targetApiKey, Str(V_apiKey)),
                        Entry(K_entities, Arr(<<V_contentTypes>>)),
                        Entry(K_folderName, Str(V_folder))>>)],
     \* 7: empty body (server.test.js: should require command and options)
     [command |-> Undefined, options |-> Undefined],
     \* 8: a one-token command
     [command |-> Str(Cmd_backup), options |-> Obj(<<>>)],
     \* 9: options that are no object
     [command |-> Str(Cmd_environment_backup), options |-> Str(V_folder)]
  >>

RequestIds == 1..Len(Requests)

StdoutChunks == {Chunk_backup, Chunk_finished, Chunk_sync}
StderrChunks == {Chunk_warn}

\* Exit codes a child reports on 'close'; NullCode is the null of a child
\* that a signal terminated.
NullCode == 0 - 1
NoCode == 0 - 2
ExitCodes == {0, 1, NullCode}

Clients == {"127.0.0.1", "192.168.1.1"}
Execs == {1, 2}

(***************************************************************************)
(* Stream messages (StreamMessage) and JSON error bodies.                  *)
(***************************************************************************)
Message(type, level, percent, text, stage, success, msg, code) ==
  [type |-> type, level |-> level, percent |-> percent, text |-> text,
   stage |-> stage, success |-> success, msg |-> msg, code |-> code]

ConnectedMsg ==
  Message("connected", "", 0, <<>>, "", FALSE, "Connected to command stream", NoCode)
ProgressMsg(percent, line, stage) ==
  Message("progress", "", percent, line, stage, FALSE, "", NoCode)
OutputMsg(level, line) ==
  Message("output", level, 0, line, "", FALSE, "", NoCode)
\* A close handler that reports a failed command as an error message.
CompleteMsgErrorOnFailure(code) ==
  IF code = 0
    THEN Message("complete", "", 0, <<>>, "", TRUE, "Command completed successfully", NoCode)
    ELSE Message("error", "", 0, <<>>, "", FALSE, "Command exited with code ", code)

\* code 0: 'Command completed successfully'; else `Command exited with code ${code}`
CompleteMsg(code) ==
  IF code = 0
    THEN Message("complete", "", 0, <<>>, "", TRUE, "Command completed successfully", NoCode)
    ELSE Message("complete", "", 0, <<>>, "", FALSE, "Command exited with code ", code)
ErrorMsg(msg) ==
  Message("error", "", 0, <<>>, "", FALSE, msg, NoCode)

NoBody == [error |-> "", solution |-> ""]
JsonBody(error, solution) == [error |-> error, solution |-> solution]

IsTerminal(m) == m.type \in {"complete", "error"}

(***************************************************************************)
(* Stream relay: the progress test of one output line.                     *)
(***************************************************************************)
\* The literals of one alternative occur in s in order, '.' matching any
\* character except a line terminator.
MatchesAlternative(alt, s) ==
  IF Len(alt) = 1 THEN includes(s, alt[1])
  ELSE \E i \in 0..Len(s), j \in 0..Len(s) :
         /\ OccursAt(s, alt[1], i)
         /\ OccursAt(s, alt[2], j)
         /\ j >= i + Len(alt[1])
         /\ \A k \in (i + Len(alt[1]) + 1)..j : s[k] \notin {"\n", "\r"}

\* stage.pattern.test(line)
PatternTest(pattern, line) ==
  \E k \in 1..Len(pattern) : MatchesAlternative(pattern[k], toLowerCase(line))

\* Commands and output lines that occur in the inputs, and the outcome of
\* stage.pattern.test(line) for each of them, computed once.
InputCommands == {Requests[r].command.s : r \in {q \in 1..Len(Requests) : Requests[q].command.t = "string"}}
\* data.toString().split('\n').filter(line => line.trim())
ChunkLines(chunk) == SelectLines(split(chunk, "\n"))
InputChunks == StdoutChunks \cup StderrChunks
InputLines == UNION {{ChunkLines(c)[i] : i \in 1..Len(ChunkLines(c))} : c \in InputChunks}
StageTests ==
  [command \in InputCommands |->
    [line \in InputLines |->
      [k \in 1..Len(progressStages(command)) |->
         PatternTest(progressStages(command)[k].pattern, line)]]]
LinesOfChunk == [c \in InputChunks |-> ChunkLines(c)]

\* A for loop that lets a progress message through at exactly the interval.
FirstStageInclusive(command, line, t, last) ==
  LET stages == progressStages(command)
      passes(k) == StageTests[command][line][k] /\ t - last >= PROGRESS_INTERVAL
  IN  IF \E k \in 1..Len(stages) : passes(k)
        THEN CHOOSE k \in 1..Len(stages) :
               passes(k) /\ \A j \in 1..(k - 1) : ~passes(j)
        ELSE 0

\* The first stage of commandStages that passes the test of the for loop
\* (pattern matches and the last progress message is old enough), or 0.
FirstStage(command, line, t, last) ==
  LET stages == progressStages(command)
      passes(k) == StageTests[command][line][k] /\ t - last > PROGRESS_INTERVAL
  IN  IF \E k \in 1..Len(stages) : passes(k)
        THEN CHOOSE k \in 1..Len(stages) :
               passes(k) /\ \A j \in 1..(k - 1) : ~passes(j)
        ELSE 0

RECURSIVE RelayStdoutLinesProgressOnly(_, _, _, _)
\* A stdout handler that sends a line either as progress or as output.
RelayStdoutLinesProgressOnly(lines, command, t, last) ==
  IF lines = <<>> THEN [msgs |-> <<>>, last |-> last]
  ELSE LET line == Head(lines)
           k == FirstStage(command, line, t, last)
           stage == progressStages(command)[k]
           rest == RelayStdoutLinesProgressOnly(Tail(lines), command, t,
                                                IF k = 0 THEN last ELSE t)
       IN  [msgs |-> (IF k = 0 THEN <<OutputMsg("info", line)>>
                      ELSE <<ProgressMsg(stage.percent, line, stage.stage)>>) \o rest.msgs,
            last |-> rest.last]

RECURSIVE RelayStdoutLines(_, _, _, _)
\* lines.forEach of the stdout handler at clock value t: the messages written
\* and the value of lastProgressUpdate afterwards.
RelayStdoutLines(lines, command, t, last) ==
  IF lines = <<>> THEN [msgs |-> <<>>, last |-> last]
  ELSE LET line == Head(lines)
           k == FirstStage(command, line, t, last)
           stage == progressStages(command)[k]
           progress == IF k = 0 THEN <<>>
                       ELSE <<ProgressMsg(stage.percent, line, stage.stage)>>
           rest == RelayStdoutLines(Tail(lines), command, t, IF k = 0 THEN last ELSE t)
       IN  [msgs |-> progress \o <<OutputMsg("info", line)>> \o rest.msgs,
            last |-> rest.last]

\* lines.forEach of the stderr handler.
RelayStderrLines(lines) ==
  [i \in 1..Len(lines) |-> OutputMsg("error", lines[i])]


(***************************************************************************)
(* Errors thrown on the way to the child process.  An error message is its *)
(* fixed text and the request text interpolated into it.                   *)
(***************************************************************************)
N_Validation_errors ==
  <<"V", "a", "l", "i", "d", "a", "t", "i", "o", "n", " ", "e", "r", "r", "o", "r", "s">>

N_not_found ==
  <<"n", "o", "t", " ", "f", "o", "u", "n", "d">>

N_required ==
  <<"r", "e", "q", "u", "i", "r", "e", "d">>

N_ENOENT ==
  <<"E", "N", "O", "E", "N", "T">>

N_permission ==
  <<"p", "e", "r", "m", "i", "s", "s", "i", "o", "n">>

Err(message, detail) == [message |-> message, detail |-> detail]

CliNotFound ==
  Err("Data-ops CLI not found at <DATA_OPS_CLI>. Please ensure the data-ops repository is built. Run: cd data-ops && npm run build", <<>>)

RequiredMessages ==
  {"environmentId and apiKey are required for environment backup",
   "environmentId, apiKey, and fileName are required for environment restore",
   "environmentId and apiKey are required for environment clean",
   "targetEnvironmentId, targetApiKey, and entities are required for sync run",
   "Either sourceEnvironmentId+sourceApiKey or folderName is required for sync run",
   "sourceApiKey is required when using sourceEnvironmentId",
   "environmentId, apiKey, and entities are required for sync snapshot",
   "targetEnvironmentId and targetApiKey are required for sync diff",
   "Either sourceEnvironmentId+sourceApiKey or folderName is required for sync diff",
   "outPath is required when advanced option is enabled"}

\* err.message.includes(needle)
ErrIncludes(err, needle) ==
  \/ includes(err.detail, needle)
  \/ needle = N_Validation_errors /\ err.message = "Validation errors: "
  \/ needle = N_not_found /\ err.message = CliNotFound.message
  \/ needle = N_required /\ err.message \in RequiredMessages

RECURSIVE ErrorKeys(_)
\* The request text inside errors.join(', ').
ErrorKeys(errors) ==
  IF errors = <<>> THEN <<>>
  ELSE Head(errors).key \o (IF Len(errors) > 1 THEN <<",", " ">> ELSE <<>>)
       \o ErrorKeys(Tail(errors))

\* The catch block of executeDataOpsCommand.
Rethrown(err) ==
  IF ErrIncludes(err, N_not_found) THEN CliNotFound ELSE err

getErrorSolution(err) ==
  IF ErrIncludes(err, N_not_found) \/ ErrIncludes(err, N_ENOENT)
    THEN "Please ensure the data-ops CLI is installed and accessible in your PATH, or set the DATA_OPS_CLI_PATH environment variable."
  ELSE IF ErrIncludes(err, N_required)
    THEN "Please ensure all required fields are filled in correctly."
  ELSE IF ErrIncludes(err, N_permission)
    THEN "Please check file permissions and ensure you have the necessary access rights."
  ELSE "Please check the error message and try again. If the issue persists, review the logs for more details."

Digits == <<"0", "1", "2", "3", "4", "5", "6", "7", "8", "9">>

\* Object.entries(options || {})
OptionEntries(options) ==
  IF ~Truthy(options) THEN <<>>
  ELSE IF options.t = "array"
    THEN [i \in 1..Len(options.a) |-> Entry(<<Digits[i]>>, Str(options.a[i]))]
  ELSE options.o

\* executeDataOpsCommand ignoring the verdict of the validator.
ExecutePrefixUnvalidated(command, options) ==
  LET Outcome(s) ==
        IF s.threw
          THEN [threw |-> TRUE, steps |-> <<"sanitize">>,
                err |-> Rethrown(Err("Validation errors: ", ErrorKeys(s.errors))),
                sanitized |-> <<>>]
        ELSE [threw |-> FALSE, steps |-> <<"sanitize", "validate", "access">>,
              err |-> Err("", <<>>), sanitized |-> s.sanitized]
  IN  CHOOSE out \in {Outcome(s) : s \in {validateAndSanitizeOptions(command, options)}} : TRUE

\* executeDataOpsCommand up to its first await: the steps taken in order and
\* the error thrown, if any.
ExecutePrefix(command, options) ==
  LET \* s: the outcome of validateAndSanitizeOptions; v: the verdict of
      \* validateCommandOptions on the sanitized options.
      Outcome(s, v) ==
        IF s.threw
          THEN [threw |-> TRUE, steps |-> <<"sanitize">>,
                err |-> Rethrown(Err("Validation errors: ", ErrorKeys(s.errors))),
                sanitized |-> <<>>]
        ELSE IF ~v.valid
          THEN [threw |-> TRUE, steps |-> <<"sanitize", "validate">>,
                err |-> Rethrown(Err(v.message, v.detail)), sanitized |-> <<>>]
        ELSE [threw |-> FALSE, steps |-> <<"sanitize", "validate", "access">>,
              err |-> Err("", <<>>), sanitized |-> s.sanitized]
      Validated(s) ==
        CHOOSE out \in {Outcome(s, v) : v \in {validateCommandOptions(command, s.sanitized)}} : TRUE
  IN  CHOOSE out \in {Validated(s) : s \in {validateAndSanitizeOptions(command, options)}} : TRUE

\* The catch block of the route before any header is sent: the JSON reply.
CatchReply(err) ==
  IF ErrIncludes(err, N_Validation_errors)
    THEN [status |-> 500,
          body |-> JsonBody(err.message, "Please correct the validation errors and try again.")]
  ELSE IF ErrIncludes(err, N_not_found)
    THEN [status |-> 500,
          body |-> JsonBody("Data-ops CLI not found",
                            "Please ensure the data-ops repository is built. Run: cd data-ops && npm run build")]
  ELSE [status |-> 500, body |-> JsonBody(err.message, getErrorSolution(err))]

\* The route handler up to the await of executeDataOpsCommand: either a JSON
\* reply or the suspended call.
RouteEntry(body) ==
  LET command == body.command
      options == body.options
      commandParts == split(command.s, " ")
      \* run: the outcome of executeDataOpsCommand up to its first await.
      Awaited(run) ==
        IF run.threw
          THEN [replied |-> TRUE, status |-> CatchReply(run.err).status, steps |-> run.steps,
                sanitized |-> <<>>, body |-> CatchReply(run.err).body, err |-> run.err]
        ELSE [replied |-> FALSE, status |-> 0, steps |-> run.steps,
              sanitized |-> run.sanitized, body |-> NoBody, err |-> run.err]
  IN  IF ~Truthy(command) \/ command.t # "string"
        THEN [replied |-> TRUE, status |-> 400, steps |-> <<>>, sanitized |-> <<>>,
              err |-> Err("", <<>>),
              body |-> JsonBody("Command is required", "Please select a command to execute")]
      ELSE IF Len(commandParts) < 2 \/ Len(commandParts) > 3
        THEN [replied |-> TRUE, status |-> 400, steps |-> <<>>, sanitized |-> <<>>,
              err |-> Err("", <<>>),
              body |-> JsonBody("Invalid command format",
                                "Command must be in the format: <command> <subcommand>")]
      ELSE IF Truthy(options) /\ options.t \notin {"object", "array"}
        THEN [replied |-> TRUE, status |-> 400, steps |-> <<>>, sanitized |-> <<>>,
              err |-> Err("", <<>>),
              body |-> JsonBody("Invalid options format", "Options must be an object")]
      ELSE CHOOSE out \in {Awaited(run) :
                             run \in {ExecutePrefix(command.s, OptionEntries(options))}} : TRUE

\* The handler's outcome for each request body of the inputs, computed once.
RouteEntries == [r \in RequestIds |-> RouteEntry(Requests[r])]

(***************************************************************************)
(* Direct calls of validateCommandOptions: commands and option objects.    *)
(***************************************************************************)
Cmd_environment_clean ==
  <<"e", "n", "v", "i", "r", "o", "n", "m", "e", "n", "t", " ", "c", "l", "e", "a", "n">>

Cmd_sync_diff ==
  <<"s", "y", "n", "c", " ", "d", "i", "f", "f">>

Cmd_sync_snapshot ==
  <<"s", "y", "n", "c", " ", "s", "n", "a", "p", "s", "h", "o", "t">>

Cmd_environment_foo ==
  <<"e", "n", "v", "i", "r", "o", "n", "m", "e", "n", "t", " ", "f", "o", "o">>

Cmd_sync_foo ==
  <<"s", "y", "n", "c", " ", "f", "o", "o">>

Cmd_migrate_content_run ==
  <<"m", "i", "g", "r", "a", "t", "e", "-", "c", "o", "n", "t", "e", "n", "t", " ", "r", "u",
    "n">>

Cmd_unknown_command ==
  <<"u", "n", "k", "n", "o", "w", "n", " ", "c", "o", "m", "m", "a", "n", "d">>

V_backupZip ==
  <<"b", "a", "c", "k", "u", "p", ".", "z", "i", "p">>

V_outPath ==
  <<".", "/", "d", "i", "f", "f">>

V_blank ==
  <<" ", " ">>

\* The object with values[i] under keys[i]; an undefined value is an absent key.
OptionsOf(keys, values) ==
  LET Present(e) == e.value.t # "undefined"
  IN  SelectSeq([i \in 1..Len(keys) |-> Entry(keys[i], values[i])], Present)

\* A string option: absent, empty, or the given text.
StringChoices(text) == {Undefined, Str(<<>>), Str(text)}

EnvironmentCommands ==
  {Cmd_environment_backup, Cmd_environment_restore, Cmd_environment_clean, Cmd_environment_foo}
EnvironmentOptions ==
  {OptionsOf(<<K_environmentId, K_apiKey, K_fileName>>, <<id, key, file>>) :
     id \in StringChoices(V_uuid), key \in StringChoices(V_apiKey),
     file \in StringChoices(V_backupZip)}

SyncCommands == {Cmd_sync_run, Cmd_sync_diff, Cmd_sync_snapshot, Cmd_sync_foo}
SyncOptions ==
  {OptionsOf(<<K_targetEnvironmentId, K_targetApiKey, K_entities, K_sourceEnvironmentId,
               K_sourceApiKey, K_folderName, K_advanced, K_outPath>>,
             <<tid, tkey, entities, sid, skey, folder, advanced, out>>) :
     tid \in StringChoices(V_uuid), tkey \in StringChoices(V_apiKey),
     entities \in {Undefined, Arr(<<>>), Arr(<<V_contentTypes>>), Str(V_contentTypes)},
     sid \in StringChoices(V_uuid), skey \in StringChoices(V_apiKey),
     folder \in StringChoices(V_folder),
     advanced \in {Undefined, Bool(FALSE), Bool(TRUE)},
     out \in {Undefined, Str(<<>>), Str(V_blank), Str(V_outPath)}}

OtherCommands ==
  {Cmd_migrate_content_run, Cmd_unknown_command, Cmd_invalid_command, Cmd_backup, <<>>}

ValidateInputs ==
  {[command |-> c, options |-> o] : c \in EnvironmentCommands, o \in EnvironmentOptions}
  \cup {[command |-> c, options |-> o] : c \in SyncCommands, o \in SyncOptions}
  \cup {[command |-> c, options |-> <<>>] : c \in OtherCommands}

(***************************************************************************)
(* Direct calls of validateAndSanitizeOptions: option objects.             *)
(***************************************************************************)
K_apiKeyFolder ==
  <<"a", "p", "i", "K", "e", "y", "F", "o", "l", "d", "e", "r">>

V_notUuid ==
  <<"n", "o", "t", "-", "a", "-", "u", "u", "i", "d">>

V_short ==
  <<"s", "h", "o", "r", "t">>

V_traversalInside ==
  <<"f", "o", "l", "d", "e", "r", "/", ".", ".", "/", "b", "a", "c", "k", "u", "p", ".", "z",
    "i", "p">>

V_nulInside ==
  <<"b", "a", "c", "k", "u", "p", "NUL", ".", "z", "i", "p">>

V_parentFolder ==
  <<".", ".", "/", "x">>

V_longFolder ==
  <<"v", "a", "l", "i", "d", "-", "f", "o", "l", "d", "e", "r", "-", "n", "a", "m", "e">>

V_paddedUuid ==
  <<" ", "1", "2", "3", "e", "4", "5", "6", "7", "-", "e", "8", "9", "b", "-", "1", "2", "d",
    "3", "-", "a", "4", "5", "6", "-", "4", "2", "6", "6", "1", "4", "1", "7", "4", "0", "0",
    "0", " ">>

V_paddedZip ==
  <<" ", "b", "a", "c", "k", "u", "p", ".", "z", "i", "p", " ">>

V_spaceRoot ==
  <<" ", "/", ".", ".", "/", "x">>

\* A path of exactly the maximum length.
V_longPath == [i \in 1..DefaultMaxLength |-> "a"]

SanitizeInputs ==
  {OptionsOf(<<K_environmentId, K_apiKey, K_fileName, K_folderName, K_apiKeyFolder>>,
             <<id, key, file, folder, both>>) :
     id \in {Undefined, Str(V_uuid), Str(V_notUuid), Str(V_paddedUuid)},
     key \in {Undefined, Str(V_apiKey), Str(V_short)},
     file \in {Undefined, Str(V_backupZip), Str(V_traversal), Str(V_traversalInside),
               Str(V_nulInside), Str(V_blank), Str(V_longPath), Str(V_paddedZip),
               Str(V_spaceRoot)},
     folder \in {Undefined, Str(V_folder), Str(V_parentFolder)},
     both \in {Undefined, Str(V_longFolder), Str(V_parentFolder)}}

(***************************************************************************)
(* Direct calls of buildDataOpsArgs: commands and option objects.          *)
(***************************************************************************)
K_internalApiKey ==
  <<"_", "a", "p", "i", "K", "e", "y">>

K_internalFileName ==
  <<"_", "f", "i", "l", "e", "N", "a", "m", "e">>

K_internalProfile ==
  <<"_", "p", "r", "o", "f", "i", "l", "e">>

K_config ==
  <<"c", "o", "n", "f", "i", "g">>

V_taxonomies ==
  <<"t", "a", "x", "o", "n", "o", "m", "i", "e", "s">>

F_environment_id ==
  <<"-", "-", "e", "n", "v", "i", "r", "o", "n", "m", "e", "n", "t", "-", "i", "d">>

F_api_key ==
  <<"-", "-", "a", "p", "i", "-", "k", "e", "y">>

\* Option objects with internal keys that are named like validated fields.
InternalInputs ==
  {OptionsOf(<<K_internalApiKey, K_environmentId, K_internalFileName, K_internalProfile>>,
             <<key, id, file, profile>>) :
     key \in {Undefined, Str(V_short), Str(V_blank)},
     id \in {Undefined, Str(V_uuid), Str(V_paddedUuid), Str(V_notUuid)},
     file \in {Undefined, Str(V_traversal), Str(V_paddedZip)},
     profile \in {Undefined, Bool(TRUE), Arr(<<V_contentTypes>>)}}

\* One key with one value, as an option object may hold it.
BuildEntries ==
  {Entry(K_environmentId, v) : v \in {Str(V_uuid), Str(<<>>)}}
  \cup {Entry(K_apiKey, v) : v \in {Str(V_apiKey), Null}}
  \cup {Entry(K_fileName, Undefined)}
  \cup {Entry(K_entities, Arr(a)) :
          a \in {<<>>, <<V_contentTypes>>, <<V_contentTypes, V_taxonomies>>}}
  \cup {Entry(K_advanced, Bool(b)) : b \in BOOLEAN}
  \cup {Entry(K_config, Obj(<<Entry(K_apiKey, Str(V_apiKey))>>))}
  \cup {Entry(K_internalProfile, v) :
          v \in {Str(V_folder), Arr(<<V_contentTypes>>), Bool(TRUE)}}

\* Option objects of at most two keys, in either insertion order.
BuildOptions ==
  {<<>>} \cup {<<e>> : e \in BuildEntries}
  \cup {pair \in BuildEntries \X BuildEntries : pair[1].key # pair[2].key}

BuildCommands == {Cmd_backup, Cmd_environment_backup, Cmd_sync_run}

BuildInputs == {[command |-> c, options |-> o] : c \in BuildCommands, o \in BuildOptions}

(***************************************************************************)
(* app-frontend.js: parseProgressFromOutput                                *)
(***************************************************************************)
DigitChars == {"0", "1", "2", "3", "4", "5", "6", "7", "8", "9"}
SpaceChars == {" ", "\t", "\n", "\r"}

RECURSIVE parseInt(_)
\* parseInt(text, 10) of a run of digits
parseInt(text) ==
  IF text = <<>> THEN 0
  ELSE 10 * parseInt(SubSeq(text, 1, Len(text) - 1))
       + (CHOOSE d \in 0..9 : Digits[d + 1] = text[Len(text)])

\* The parts of a regular expression: literal text (compared without case),
\* one or more characters of a class (min = 1) or any number of them
\* (min = 0), kept as a capture group or not.
Lit(text) == [k |-> "lit", text |-> text, set |-> {}, min |-> 0, capture |-> FALSE]
Many(set, min) == [k |-> "many", text |-> <<>>, set |-> set, min |-> min, capture |-> FALSE]
OneOf(set) == [k |-> "one", text |-> <<>>, set |-> set, min |-> 1, capture |-> FALSE]
Capture(set) == [k |-> "many", text |-> <<>>, set |-> set, min |-> 1, capture |-> TRUE]

\* The length of the longest run of characters of the set after position i.
Run(s, i, set) ==
  CHOOSE n \in 0..(Len(s) - i) :
    /\ \A j \in 1..n : s[i + j] \in set
    /\ i + n = Len(s) \/ s[i + n + 1] \notin set

RECURSIVE MatchItems(_, _, _, _)
\* The items matched one after the other from position i. Every repeated
\* class of the patterns below is followed by a character outside the
\* class, so the longest run is the only run that can match.
MatchItems(items, s, i, caps) ==
  IF items = <<>> THEN [matched |-> TRUE, caps |-> caps]
  ELSE LET item == Head(items)
           NoMatch == [matched |-> FALSE, caps |-> <<>>]
       IN  CASE item.k = "lit" ->
                  IF /\ i + Len(item.text) <= Len(s)
                     /\ \A j \in 1..Len(item.text) : ToLowerChar(s[i + j]) = item.text[j]
                    THEN MatchItems(Tail(items), s, i + Len(item.text), caps)
                    ELSE NoMatch
             [] item.k = "one" ->
                  IF i < Len(s) /\ s[i + 1] \in item.set
                    THEN MatchItems(Tail(items), s, i + 1, caps)
                    ELSE NoMatch
             [] item.k = "many" ->
                  LET n == Run(s, i, item.set)
                  IN  IF n < item.min THEN NoMatch
                      ELSE MatchItems(Tail(items), s, i + n,
                                      IF item.capture
                                        THEN Append(caps, SubSeq(s, i + 1, i + n))
                                        ELSE caps)

\* message.match(pattern): the leftmost match; a pattern is the sequence of
\* its alternatives.
Match(pattern, message) ==
  LET At(i) == {MatchItems(pattern[a], message, i, <<>>) : a \in 1..Len(pattern)}
      Hit(i) == \E r \in At(i) : r.matched
  IN  IF \E i \in 0..Len(message) : Hit(i)
        THEN LET i == CHOOSE k \in 0..Len(message) : Hit(k) /\ \A j \in 0..(k - 1) : ~Hit(j)
             IN  CHOOSE r \in At(i) : r.matched
        ELSE [matched |-> FALSE, caps |-> <<>>]

\* /(\d+)%\s*[\/\\]\s*(\d+)/
Pattern_percent_of ==
  <<<<Capture(DigitChars), Lit(<<"%">>), Many(SpaceChars, 0), OneOf({"/", "\\"}),
      Many(SpaceChars, 0), Capture(DigitChars)>>>>
\* /(\d+)\s*of\s*(\d+)/i
Pattern_n_of_m ==
  <<<<Capture(DigitChars), Many(SpaceChars, 0), Lit(<<"o", "f">>), Many(SpaceChars, 0),
      Capture(DigitChars)>>>>
\* /progress[:\s]+(\d+)%/i
Pattern_progress ==
  <<<<Lit(<<"p", "r", "o", "g", "r", "e", "s", "s">>), Many(SpaceChars \cup {":"}, 1),
      Capture(DigitChars), Lit(<<"%">>)>>>>
\* /(\d+)\/(\d+)/
Pattern_slash ==
  <<<<Capture(DigitChars), Lit(<<"/">>), Capture(DigitChars)>>>>
\* /\[(\d+)%\]/
Pattern_bracket ==
  <<<<Lit(<<"[">>), Capture(DigitChars), Lit(<<"%", "]">>)>>>>
\* /backing up|restoring|syncing|processing/i
Pattern_stage ==
  <<<<Lit(<<"b", "a", "c", "k", "i", "n", "g", " ", "u", "p">>)>>, <<Lit(<<"r", "e", "s", "t", "o", "r", "i", "n", "g">>)>>, <<Lit(<<"s", "y", "n", "c", "i", "n", "g">>)>>, <<Lit(<<"p", "r", "o", "c", "e", "s", "s", "i", "n", "g">>)>>>>

\* The list with the 'N/M' pattern tried before the 'N of M' pattern.
progressPatternsSlashEarly ==
  <<Pattern_percent_of, Pattern_slash, Pattern_progress, Pattern_n_of_m, Pattern_bracket,
    Pattern_stage>>

progressPatterns ==
  <<Pattern_percent_of, Pattern_n_of_m, Pattern_progress, Pattern_slash, Pattern_bracket,
    Pattern_stage>>

stagePatterns ==
  <<[pattern |-> <<<<Lit(<<"b", "a", "c", "k", "i", "n", "g", " ", "u", "p">>)>>>>, stage |-> "Backing up data..."],
    [pattern |-> <<<<Lit(<<"r", "e", "s", "t", "o", "r", "i", "n", "g">>)>>>>, stage |-> "Restoring data..."],
    [pattern |-> <<<<Lit(<<"s", "y", "n", "c", "i", "n", "g">>)>>>>, stage |-> "Synchronizing..."],
    [pattern |-> <<<<Lit(<<"p", "r", "o", "c", "e", "s", "s", "i", "n", "g">>)>>>>, stage |-> "Processing..."],
    [pattern |-> <<<<Lit(<<"v", "a", "l", "i", "d", "a", "t", "i", "n", "g">>)>>>>, stage |-> "Validating..."],
    [pattern |-> <<<<Lit(<<"f", "e", "t", "c", "h", "i", "n", "g">>)>>>>, stage |-> "Fetching data..."],
    [pattern |-> <<<<Lit(<<"u", "p", "l", "o", "a", "d", "i", "n", "g">>)>>>>, stage |-> "Uploading..."],
    [pattern |-> <<<<Lit(<<"d", "o", "w", "n", "l", "o", "a", "d", "i", "n", "g">>)>>>>, stage |-> "Downloading..."]>>

\* The values parseProgressFromOutput returns; a percent is the fraction
\* num / den.
PercentSignal(num, den, message) ==
  [t |-> "percent", num |-> num, den |-> den, message |-> message, stage |-> ""]
StageSignal(message, stage) ==
  [t |-> "stage", num |-> 0, den |-> 1, message |-> message, stage |-> stage]
NoSignal == [t |-> "null", num |-> 0, den |-> 1, message |-> <<>>, stage |-> ""]

RECURSIVE FirstPercent(_, _)
\* for (const pattern of progressPatterns): the first pattern that returns
FirstPercent(patterns, message) ==
  IF patterns = <<>> THEN NoSignal
  ELSE LET match == Match(Head(patterns), message)
       IN  IF match.matched /\ Len(match.caps) = 2 /\ parseInt(match.caps[2]) > 0
             THEN PercentSignal(100 * parseInt(match.caps[1]), parseInt(match.caps[2]), message)
           ELSE IF match.matched /\ Len(match.caps) = 1
             THEN PercentSignal(parseInt(match.caps[1]), 1, message)
           ELSE FirstPercent(Tail(patterns), message)

RECURSIVE FirstStageLabel(_, _)
\* for (const { pattern, stage } of stagePatterns)
FirstStageLabel(patterns, message) ==
  IF patterns = <<>> THEN NoSignal
  ELSE IF Match(Head(patterns).pattern, message).matched
    THEN StageSignal(message, Head(patterns).stage)
  ELSE FirstStageLabel(Tail(patterns), message)

parseProgressFromOutput(message) ==
  LET signal == FirstPercent(progressPatterns, message)
  IN  IF signal.t = "percent" THEN signal
      ELSE FirstStageLabel(stagePatterns, message)

RECURSIVE DecimalText(_)
\* The decimal digits of a number.
DecimalText(n) ==
  IF n < 10 THEN <<Digits[n + 1]>>
  ELSE DecimalText(n \div 10) \o <<Digits[(n % 10) + 1]>>

\* Output lines: counts and percents in every form the patterns read, and
\* lines with stage words, with several forms, or with none.
RatioLines ==
  {DecimalText(n) \o sep \o DecimalText(total) :
     n \in {0, 5, 50, 150}, total \in {0, 10, 100},
     sep \in {<<" ", "o", "f", " ">>, <<"/">>, <<"%", " ", "/", " ">>}}
PercentLines ==
  {around[1] \o DecimalText(n) \o around[2] :
     n \in {0, 5, 50, 150},
     around \in {<<<<"P", "r", "o", "g", "r", "e", "s", "s", ":", " ">>, <<"%">>>>,
                 <<<<"[">>, <<"%", "]">>>>}}
OtherLines ==
  {<<"4", "5", "%", " ", "/", " ", "1", "0", "0">>,
   <<"P", "r", "o", "g", "r", "e", "s", "s", ":", " ", "7", "2", "%">>,
   <<"B", "a", "c", "k", "i", "n", "g", " ", "u", "p", " ", "c", "o", "n", "t", "e", "n", "t", ".", ".", ".">>,
   <<"h", "e", "l", "l", "o", " ", "w", "o", "r", "l", "d">>,
   <<"1", "/", "2", " ", "t", "h", "e", "n", " ", "3", " ", "o", "f", " ", "4">>,
   <<"[", "5", "0", "%", "]", " ", "P", "r", "o", "g", "r", "e", "s", "s", ":", " ", "2", "0", "%">>,
   <<"5", " ", "o", "f", " ", "0", " ", "[", "5", "0", "%", "]">>,
   <<"5", " ", "o", "f", " ", "0", " ", "p", "r", "o", "c", "e", "s", "s", "i", "n", "g">>,
   <<"s", "y", "n", "c", "i", "n", "g", " ", "t", "h", "e", "n", " ", "r", "e", "s", "t", "o", "r", "i", "n", "g">>,
   <<"P", "r", "o", "c", "e", "s", "s", "i", "n", "g", " ", "3", "/", "4">>,
   <<"U", "p", "l", "o", "a", "d", "i", "n", "g", " ", "a", "s", "s", "e", "t", "s">>,
   <<"5", "0", "%", " ", "\\", " ", "1", "0", "0">>,
   <<"P", "R", "O", "G", "R", "E", "S", "S", " ", "7", "%">>,
   <<"1", "0", " ", "O", "F", " ", "2", "0">>}
ClassifyLines == RatioLines \cup PercentLines \cup OtherLines

(***************************************************************************)
(* app-frontend.js: workflows                                              *)
(***************************************************************************)
MaxSteps == 3

\* A workflow: for each step whether it has a command, the stop-on-error
\* option and the execution mode.
Workflows ==
  {[steps |-> s, stopOnError |-> b, executionMode |-> mode] :
     s \in UNION {[1..n -> BOOLEAN] : n \in 1..MaxSteps},
     b \in BOOLEAN, mode \in {"sequential", "parallel"}}

\* workflowState with the position of every call of executeWorkflowStep:
\* "pending" (not called), "fetch" (awaiting fetch), "read" (reading the
\* stream), "true" or "false" (returned); served is the terminal event the
\* stream of the step carried; report is the toast of runWorkflow.
IdleWorkflow(workflow) ==
  [isRunning |-> FALSE, workflow |-> workflow, started |-> FALSE,
   stepPc |-> [k \in 1..Len(workflow.steps) |-> "pending"],
   served |-> [k \in 1..Len(workflow.steps) |-> "none"],
   allSuccess |-> TRUE, report |-> "none"]

NoWorkflow == IdleWorkflow([steps |-> <<>>, stopOnError |-> FALSE, executionMode |-> "sequential"])

\* runWorkflow after its loop: the toast, and the finally block.
FinishWorkflow(ws) ==
  [ws EXCEPT !.isRunning = FALSE,
             !.report = IF ws.allSuccess THEN "success" ELSE "errors"]

RECURSIVE RunSequential(_, _)
\* The for loop of runWorkflow from step i up to its next await that has to
\* wait: a step without a command returns false at once.
RunSequential(ws, i) ==
  IF i > Len(ws.workflow.steps) THEN FinishWorkflow(ws)
  ELSE IF ws.workflow.steps[i] THEN [ws EXCEPT !.stepPc[i] = "fetch"]
  ELSE LET failed == [ws EXCEPT !.stepPc[i] = "false", !.allSuccess = FALSE]
       IN  IF ws.workflow.stopOnError THEN FinishWorkflow(failed)
           ELSE RunSequential(failed, i + 1)

\* A loop that stops at a failed step only.
StepReturnsIgnoringStop(ws, i, success) ==
  LET returned == [ws EXCEPT !.stepPc[i] = IF success THEN "true" ELSE "false",
                             !.allSuccess = ws.allSuccess /\ success]
      Settled(k) == returned.stepPc[k] \in {"true", "false"}
  IN  IF ws.workflow.executionMode = "parallel"
        THEN IF \A k \in 1..Len(ws.workflow.steps) : Settled(k)
               THEN FinishWorkflow(returned)
               ELSE returned
        ELSE RunSequential(returned, i + 1)

\* executeWorkflowStep of step i returned success; runWorkflow goes on after
\* its await (sequential) or after Promise.allSettled (parallel).
StepReturns(ws, i, success) ==
  LET returned == [ws EXCEPT !.stepPc[i] = IF success THEN "true" ELSE "false",
                             !.allSuccess = ws.allSuccess /\ success]
      Settled(k) == returned.stepPc[k] \in {"true", "false"}
  IN  IF ws.workflow.executionMode = "parallel"
        THEN IF \A k \in 1..Len(ws.workflow.steps) : Settled(k)
               THEN FinishWorkflow(returned)
               ELSE returned
        ELSE IF ~success /\ ws.workflow.stopOnError THEN FinishWorkflow(returned)
        ELSE RunSequential(returned, i + 1)

(***************************************************************************)
(* app-frontend.js: running and cancelling one command                     *)
(***************************************************************************)
MaxRuns == 4

NoController == 0

\* state.isRunning, state.abortController (the run it belongs to), the
\* status shown by updateStatus, and the success flags of the entries of
\* the command history.
ReadyState ==
  [isRunning |-> FALSE, abortController |-> NoController, status |-> "ready", history |-> <<>>]

\* A run started by handleRunCommand: the promise of executeCommandViaServer
\* is "pending", "aborted" (rejected with an AbortError whose handlers have
\* not run yet) or "settled".
NewRun ==
  [pc |-> "pending", cancelled |-> FALSE, reported |-> "none", saved |-> "none"]

\* handleRunCommand after await executeCommandViaServer(): the try block
\* when the promise resolved, the catch block when it rejected, and the
\* finally block.
AfterAwait(st, resolved) ==
  [st EXCEPT !.status = IF resolved THEN "success" ELSE "error",
             !.history = Append(st.history, resolved),
             !.isRunning = FALSE,
             !.abortController = NoController]

SettledRun(run, resolved) ==
  [run EXCEPT !.pc = "settled",
              !.reported = IF resolved THEN "success" ELSE "error",
              !.saved = IF resolved THEN "success" ELSE "failure"]

(***************************************************************************)
(* State.                                                                  *)
(***************************************************************************)
VARIABLES
  now,                \* Date.now()
  nodeEnv,            \* process.env.NODE_ENV
  rateLimitMap,       \* rateLimitMap: client -> timestamps of admitted requests
  checks,             \* per client, the admission checks made: [at, allowed]
  pc,                 \* per execution: "idle", "access", "streaming", "replied"
  reqId,              \* the request body of the execution (index of Requests)
  clientIp,           \* req.ip
  status,             \* HTTP status of a JSON reply, 0 while none was sent
  body,               \* the JSON reply
  written,            \* the messages passed to res.write, in order
  resEnded,           \* res.end() was called
  endIndex,           \* Len(written) at the first res.end()
  steps,              \* steps of executeDataOpsCommand taken, in order
  spawnCount,         \* calls of execa
  childArgs,          \* argv handed to execa after the CLI path
  child,              \* "none", "running", "exited" (stdio still open), "closed"
  exitCode,           \* exit code of the child
  killed,             \* cp.killed
  killCalls,          \* calls of cp.kill
  received,           \* data events delivered so far: [stream, data]
  errors,             \* 'error' events emitted
  lastProgressUpdate, \* lastProgressUpdate of the execution
  clientClosed,       \* the request's 'close' event has fired
  cancelIndex,        \* Len(written) when the request's close handler ran, else NoIndex
  progressAt,         \* Date.now() at the latest progress message written, else NoTime
  timedOut,           \* the timeout timer of execa has fired
  call,               \* a direct call of a function: arguments and result
  workflowState,      \* the browser's workflowState and the position of each step
  state,              \* the browser's state: isRunning, abortController, status, history
  runs                \* the runs started by handleRunCommand

vars ==
  <<now, nodeEnv, rateLimitMap, checks, pc, reqId, clientIp, status, body,
    written, resEnded, endIndex, steps, spawnCount, childArgs, child, exitCode,
    killed, killCalls, received, errors, lastProgressUpdate, clientClosed,
    cancelIndex, progressAt, timedOut, call, workflowState, state, runs>>

limiterVars == <<rateLimitMap, checks>>
requestVars == <<pc, reqId, clientIp, status, body, steps>>
responseVars == <<written, resEnded, endIndex, progressAt>>
processVars ==
  <<spawnCount, childArgs, child, exitCode, killed, killCalls, received, errors, timedOut>>

NoIndex == 0 - 1
NoTime == 0 - 1
NoCall == [fn |-> "none"]
browserVars == <<workflowState, state, runs>>
\* Everything but the direct call.
serverVars ==
  <<now, nodeEnv, limiterVars, requestVars, responseVars, processVars,
    lastProgressUpdate, clientClosed, cancelIndex>>

InitServer ==
  /\ now = StartTime
  /\ nodeEnv \in {"development", "production"}
  /\ rateLimitMap = [c \in Clients |-> <<>>]
  /\ checks = [c \in Clients |-> <<>>]
  /\ pc = [e \in Execs |-> "idle"]
  /\ reqId = [e \in Execs |-> 0]
  /\ clientIp = [e \in Execs |-> ""]
  /\ status = [e \in Execs |-> 0]
  /\ body = [e \in Execs |-> NoBody]
  /\ written = [e \in Execs |-> <<>>]
  /\ resEnded = [e \in Execs |-> FALSE]
  /\ endIndex = [e \in Execs |-> NoIndex]
  /\ steps = [e \in Execs |-> <<>>]
  /\ spawnCount = [e \in Execs |-> 0]
  /\ childArgs = [e \in Execs |-> <<>>]
  /\ child = [e \in Execs |-> "none"]
  /\ exitCode = [e \in Execs |-> NoCode]
  /\ killed = [e \in Execs |-> FALSE]
  /\ killCalls = [e \in Execs |-> 0]
  /\ received = [e \in Execs |-> <<>>]
  /\ errors = [e \in Execs |-> 0]
  /\ lastProgressUpdate = [e \in Execs |-> 0]
  /\ clientClosed = [e \in Execs |-> FALSE]
  /\ cancelIndex = [e \in Execs |-> NoIndex]
  /\ progressAt = [e \in Execs |-> NoTime]
  /\ timedOut = [e \in Execs |-> FALSE]

\* The page with no workflow chosen and no command run yet.
InitBrowser ==
  /\ workflowState = NoWorkflow
  /\ state = ReadyState
  /\ runs = <<>>

Init == InitServer /\ call = NoCall /\ InitBrowser

(***************************************************************************)
(* Response primitives.                                                    *)
(***************************************************************************)
\* res.write of each message of msgs, then res.end() when end is TRUE.
Respond(e, msgs, end) ==
  /\ written' = [written EXCEPT ![e] = @ \o msgs]
  /\ resEnded' = [resEnded EXCEPT ![e] = @ \/ end]
  /\ endIndex' = [endIndex EXCEPT ![e] =
                    IF end /\ ~resEnded[e] THEN Len(written[e]) + Len(msgs) ELSE @]
  /\ progressAt' = [progressAt EXCEPT ![e] =
                      IF \E i \in 1..Len(msgs) : msgs[i].type = "progress" THEN now ELSE @]

\* res.headersSent
HeadersSent(e) == status[e] # 0 \/ Len(written[e]) > 0

\* res.status(code).json(reply); the handler returns.
ReplyJson(e, code, reply) ==
  /\ status' = [status EXCEPT ![e] = code]
  /\ body' = [body EXCEPT ![e] = reply]
  /\ pc' = [pc EXCEPT ![e] = "replied"]
  /\ UNCHANGED responseVars

\* A catch block that reports on the stream whether or not it was opened.
CatchBlockOnStream(e, err) ==
  /\ Respond(e, <<ErrorMsg(CatchReply(err).body.error)>>, TRUE)
  /\ pc' = [pc EXCEPT ![e] = "replied"]
  /\ UNCHANGED <<status, body>>

\* The catch block of the route for an error thrown by executeDataOpsCommand.
CatchBlock(e, err) ==
  IF ~HeadersSent(e)
    THEN ReplyJson(e, CatchReply(err).status, CatchReply(err).body)
    ELSE /\ Respond(e, <<ErrorMsg(CatchReply(err).body.error)>>, TRUE)
         /\ pc' = [pc EXCEPT ![e] = "replied"]
         /\ UNCHANGED <<status, body>>

\* A stream opened without the connected message.
StartStreamSilent(e) == Respond(e, <<>>, FALSE)

\* The stream is opened: headers and the connected message.
StartStream(e) == Respond(e, <<ConnectedMsg>>, FALSE)

(***************************************************************************)
(* The clock.                                                              *)
(***************************************************************************)
Tick ==
  /\ now < MaxTime
  /\ now' = now + 1
  /\ UNCHANGED <<nodeEnv, call, browserVars, limiterVars, requestVars, responseVars, processVars,
                 lastProgressUpdate, clientClosed, cancelIndex>>

(***************************************************************************)
(* Rate limiter: one admission check of a client.                          *)
(***************************************************************************)
\* rateLimitMiddleware: TRUE when the request goes on to the route.
Admit(ip) ==
  IF nodeEnv = "development" /\ ip \in {"127.0.0.1", "::1"}
    THEN /\ UNCHANGED limiterVars
         /\ TRUE
    ELSE LET r == checkRateLimit(rateLimitMap, ip, now)
         IN  /\ rateLimitMap' = r.map
             /\ checks' = [checks EXCEPT ![ip] = Append(@, [at |-> now, allowed |-> r.allowed])]

Admitted(ip) ==
  \/ nodeEnv = "development" /\ ip \in {"127.0.0.1", "::1"}
  \/ checkRateLimit(rateLimitMap, ip, now).allowed

\* A request to another rate limited route, or a direct call of the limiter.
CheckLimit(ip) ==
  /\ Len(checks[ip]) < MaxChecks
  /\ LET r == checkRateLimit(rateLimitMap, ip, now)
     IN  /\ rateLimitMap' = r.map
         /\ checks' = [checks EXCEPT ![ip] = Append(@, [at |-> now, allowed |-> r.allowed])]
  /\ UNCHANGED <<now, nodeEnv, call, browserVars, requestVars, responseVars, processVars,
                 lastProgressUpdate, clientClosed, cancelIndex>>

(***************************************************************************)
(* POST /api/execute.                                                      *)
(***************************************************************************)
\* The request arrives: rate limiter, input checks, sanitizer and validator,
\* up to the await of fs.access.
ExecuteRequest(e, ip, r) ==
  /\ pc[e] = "idle"
  /\ Len(checks[ip]) < MaxChecks
  /\ reqId' = [reqId EXCEPT ![e] = r]
  /\ clientIp' = [clientIp EXCEPT ![e] = ip]
  /\ Admit(ip)
  /\ IF ~Admitted(ip)
       THEN /\ ReplyJson(e, 429, JsonBody("Too many requests",
                                          "Rate limit exceeded. Please try again later."))
            /\ UNCHANGED steps
       ELSE LET entry == RouteEntries[r]
            IN  /\ steps' = [steps EXCEPT ![e] = entry.steps]
                /\ IF entry.replied /\ entry.status = 400
                     THEN ReplyJson(e, entry.status, entry.body)
                   ELSE IF entry.replied
                     THEN CatchBlock(e, entry.err)
                   ELSE /\ pc' = [pc EXCEPT ![e] = "access"]
                        /\ UNCHANGED <<status, body, responseVars>>
  /\ UNCHANGED <<now, nodeEnv, call, browserVars, processVars, lastProgressUpdate, clientClosed, cancelIndex>>

\* fs.access settles: the CLI is missing, or the child is spawned, the
\* connected message written and the handlers attached.
CliAccessed(e, exists) ==
  /\ pc[e] = "access"
  /\ IF ~exists
       THEN /\ CatchBlock(e, Rethrown(CliNotFound))
            /\ UNCHANGED <<steps, processVars>>
       ELSE LET request == Requests[reqId[e]]
                sanitized == RouteEntries[reqId[e]].sanitized
            IN  /\ steps' = [steps EXCEPT ![e] = Append(@, "spawn")]
                /\ spawnCount' = [spawnCount EXCEPT ![e] = @ + 1]
                /\ childArgs' = [childArgs EXCEPT ![e] =
                                   buildDataOpsArgs(request.command.s, sanitized)]
                /\ child' = [child EXCEPT ![e] = "running"]
                /\ StartStream(e)
                /\ pc' = [pc EXCEPT ![e] = "streaming"]
                /\ UNCHANGED <<status, body, exitCode, killed, killCalls, received, errors, timedOut>>
  /\ UNCHANGED <<now, nodeEnv, call, browserVars, limiterVars, reqId, clientIp, lastProgressUpdate,
                 clientClosed, cancelIndex>>

\* stdout 'data'.
StdoutData(e, chunk) ==
  /\ pc[e] = "streaming"
  /\ child[e] \in {"running", "exited"}
  /\ Len(received[e]) < MaxChunks
  /\ LET relay == RelayStdoutLines(LinesOfChunk[chunk], Requests[reqId[e]].command.s,
                                   now, lastProgressUpdate[e])
     IN  /\ Respond(e, relay.msgs, FALSE)
         /\ lastProgressUpdate' = [lastProgressUpdate EXCEPT ![e] = relay.last]
  /\ received' = [received EXCEPT ![e] = Append(@, [stream |-> "stdout", data |-> chunk])]
  /\ UNCHANGED <<now, nodeEnv, call, browserVars, limiterVars, requestVars, spawnCount, childArgs, child,
                 exitCode, killed, killCalls, errors, clientClosed, cancelIndex,
                 timedOut>>

\* stderr 'data'.
StderrData(e, chunk) ==
  /\ pc[e] = "streaming"
  /\ child[e] \in {"running", "exited"}
  /\ Len(received[e]) < MaxChunks
  /\ Respond(e, RelayStderrLines(LinesOfChunk[chunk]), FALSE)
  /\ received' = [received EXCEPT ![e] = Append(@, [stream |-> "stderr", data |-> chunk])]
  /\ UNCHANGED <<now, nodeEnv, call, browserVars, limiterVars, requestVars, spawnCount, childArgs, child,
                 exitCode, killed, killCalls, errors, lastProgressUpdate, clientClosed,
                 cancelIndex,
                 timedOut>>

\* The child process ends; its stdio streams may still hold unread data.
ChildExit(e, code) ==
  /\ child[e] = "running"
  /\ child' = [child EXCEPT ![e] = "exited"]
  /\ exitCode' = [exitCode EXCEPT ![e] = code]
  /\ UNCHANGED <<now, nodeEnv, call, browserVars, limiterVars, requestVars, responseVars, spawnCount,
                 childArgs, killed, killCalls, received, errors, lastProgressUpdate,
                 clientClosed, cancelIndex,
                 timedOut>>

\* cp.on('close')
ChildClose(e) ==
  /\ pc[e] = "streaming"
  /\ child[e] = "exited"
  /\ child' = [child EXCEPT ![e] = "closed"]
  /\ Respond(e, <<CompleteMsg(exitCode[e])>>, TRUE)
  /\ UNCHANGED <<now, nodeEnv, call, browserVars, limiterVars, requestVars, spawnCount, childArgs,
                 exitCode, killed, killCalls, received, errors, lastProgressUpdate,
                 clientClosed, cancelIndex,
                 timedOut>>

\* cp.on('error'): the process could not be spawned, killed or signalled.
ChildError(e) ==
  /\ pc[e] = "streaming"
  /\ child[e] \in {"running", "exited"}
  /\ errors[e] < MaxErrors
  /\ errors' = [errors EXCEPT ![e] = @ + 1]
  /\ Respond(e, <<ErrorMsg("error.message")>>, TRUE)
  /\ UNCHANGED <<now, nodeEnv, call, browserVars, limiterVars, requestVars, spawnCount, childArgs, child,
                 exitCode, killed, killCalls, received, lastProgressUpdate, clientClosed,
                 cancelIndex,
                 timedOut>>

\* A close handler whose kill of a process that is gone fails with an 'error'
\* event.
ClientCloseKillFails(e) ==
  /\ pc[e] \in {"access", "streaming"}
  /\ ~clientClosed[e]
  /\ clientClosed' = [clientClosed EXCEPT ![e] = TRUE]
  /\ IF pc[e] = "streaming"
       THEN /\ cancelIndex' = [cancelIndex EXCEPT ![e] = Len(written[e])]
            /\ IF ~killed[e]
                 THEN /\ killCalls' = [killCalls EXCEPT ![e] = @ + 1]
                      /\ killed' = [killed EXCEPT ![e] = child[e] = "running"]
                 ELSE UNCHANGED <<killed, killCalls>>
            /\ IF ~killed[e] /\ child[e] # "running"
                 THEN Respond(e, <<ErrorMsg("kill ESRCH")>>, TRUE)
                 ELSE UNCHANGED responseVars
       ELSE UNCHANGED <<cancelIndex, killed, killCalls, responseVars>>
  /\ UNCHANGED <<now, nodeEnv, call, browserVars, limiterVars, requestVars, spawnCount,
                 childArgs, child, exitCode, received, errors, lastProgressUpdate,
                 timedOut>>

\* A close handler that keeps one process handle for the whole server and
\* kills every running child.
ClientCloseKillsAll(e) ==
  /\ pc[e] \in {"access", "streaming"}
  /\ ~clientClosed[e]
  /\ clientClosed' = [clientClosed EXCEPT ![e] = TRUE]
  /\ IF pc[e] = "streaming"
       THEN /\ cancelIndex' = [cancelIndex EXCEPT ![e] = Len(written[e])]
            /\ killCalls' = [x \in Execs |-> IF child[x] = "running" /\ ~killed[x]
                                               THEN killCalls[x] + 1 ELSE killCalls[x]]
            /\ killed' = [x \in Execs |-> killed[x] \/ child[x] = "running"]
       ELSE UNCHANGED <<cancelIndex, killed, killCalls>>
  /\ UNCHANGED <<now, nodeEnv, call, browserVars, limiterVars, requestVars, responseVars, spawnCount,
                 childArgs, child, exitCode, received, errors, lastProgressUpdate,
                 timedOut>>

\* req.on('close'): the client disconnected or the connection ended.  The
\* listener exists only once the route has attached it.
ClientClose(e) ==
  /\ pc[e] \in {"access", "streaming"}
  /\ ~clientClosed[e]
  /\ clientClosed' = [clientClosed EXCEPT ![e] = TRUE]
  /\ IF pc[e] = "streaming"
       THEN /\ cancelIndex' = [cancelIndex EXCEPT ![e] = Len(written[e])]
            /\ IF ~killed[e]
                 THEN /\ killCalls' = [killCalls EXCEPT ![e] = @ + 1]
                      \* kill reports success only while the process lives
                      /\ killed' = [killed EXCEPT ![e] = child[e] = "running"]
                 ELSE UNCHANGED <<killed, killCalls>>
       ELSE UNCHANGED <<cancelIndex, killed, killCalls>>
  /\ UNCHANGED <<now, nodeEnv, call, browserVars, limiterVars, requestVars, responseVars, spawnCount,
                 childArgs, child, exitCode, received, errors, lastProgressUpdate,
                 timedOut>>

\* The timeout of execa (timeout: 3600000, killSignal: 'SIGTERM') expires while
\* the child runs: execa sends the signal.  The process may then end by the
\* signal or, handling it, with a code of its own.
Timeout(e) ==
  /\ pc[e] = "streaming"
  /\ child[e] = "running"
  /\ ~timedOut[e]
  /\ timedOut' = [timedOut EXCEPT ![e] = TRUE]
  /\ killCalls' = [killCalls EXCEPT ![e] = @ + 1]
  /\ killed' = [killed EXCEPT ![e] = TRUE]
  /\ UNCHANGED <<now, nodeEnv, call, browserVars, limiterVars, requestVars, responseVars, spawnCount,
                 childArgs, child, exitCode, received, errors, lastProgressUpdate,
                 clientClosed, cancelIndex>>

(***************************************************************************)
(* Direct calls of the functions of validation.ts.                         *)
(***************************************************************************)
\* validateCommandOptions(command, options) is about to be called.
ValidatePending(input) ==
  [fn |-> "validateCommandOptions", done |-> FALSE, command |-> input.command,
   options |-> input.options, result |-> Valid]

\* The call returns.
CallValidate ==
  /\ call.fn = "validateCommandOptions" /\ ~call.done
  /\ call' = [call EXCEPT !.done = TRUE,
                          !.result = validateCommandOptions(call.command, call.options)]
  /\ UNCHANGED <<serverVars, browserVars>>

\* validateAndSanitizeOptions(command, options) is about to be called.
SanitizePending(options) ==
  [fn |-> "validateAndSanitizeOptions", done |-> FALSE, command |-> Cmd_environment_restore,
   options |-> options, result |-> [threw |-> FALSE, errors |-> <<>>, sanitized |-> <<>>],
   pass |-> 1]

\* The call returns or throws.
CallSanitize ==
  /\ call.fn = "validateAndSanitizeOptions" /\ ~call.done
  /\ call' = [call EXCEPT !.done = TRUE,
                          !.result = validateAndSanitizeOptions(call.command, call.options)]
  /\ UNCHANGED <<serverVars, browserVars>>

\* buildDataOpsArgs(command, options) called directly.
BuildPending(input) ==
  [fn |-> "buildDataOpsArgs", done |-> FALSE, command |-> input.command,
   options |-> input.options, result |-> <<>>]

CallBuild ==
  /\ call.fn = "buildDataOpsArgs" /\ ~call.done
  /\ call' = [call EXCEPT !.done = TRUE,
                          !.result = buildDataOpsArgs(call.command, call.options)]
  /\ UNCHANGED <<serverVars, browserVars>>

\* The mapping validateAndSanitizeOptions returned is given to
\* buildDataOpsArgs, as /api/execute does.
BuildSanitized ==
  /\ call.fn = "validateAndSanitizeOptions" /\ call.done
  /\ ~call.result.threw
  /\ call' = [fn |-> "buildDataOpsArgs", done |-> TRUE, command |-> call.command,
              options |-> call.result.sanitized,
              result |-> buildDataOpsArgs(call.command, call.result.sanitized)]
  /\ UNCHANGED <<serverVars, browserVars>>

\* parseProgressFromOutput(message) called directly.
ClassifyPending(message) ==
  [fn |-> "parseProgressFromOutput", done |-> FALSE, message |-> message, result |-> NoSignal]

CallClassify ==
  /\ call.fn = "parseProgressFromOutput" /\ ~call.done
  /\ call' = [call EXCEPT !.done = TRUE, !.result = parseProgressFromOutput(call.message)]
  /\ UNCHANGED <<serverVars, browserVars>>

\* The mapping a first call returned is sanitized again.
CallSanitizeAgain ==
  /\ call.fn = "validateAndSanitizeOptions" /\ call.done /\ call.pass = 1
  /\ ~call.result.threw
  /\ call' = [call EXCEPT !.pass = 2,
                          !.options = call.result.sanitized,
                          !.result = validateAndSanitizeOptions(call.command,
                                                                call.result.sanitized)]
  /\ UNCHANGED <<serverVars, browserVars>>

(***************************************************************************)
(* Browser: runWorkflow and executeWorkflowStep.                           *)
(***************************************************************************)
\* runWorkflow() up to its first await.
RunWorkflow ==
  /\ ~workflowState.isRunning /\ ~workflowState.started
  /\ Len(workflowState.workflow.steps) > 0
  /\ LET ws == [workflowState EXCEPT !.isRunning = TRUE, !.started = TRUE]
         steps_ == ws.workflow.steps
     IN  workflowState' =
           IF ws.workflow.executionMode = "parallel"
             THEN LET called ==
                        [ws EXCEPT !.stepPc = [k \in 1..Len(steps_) |->
                                                 IF steps_[k] THEN "fetch" ELSE "false"],
                                   !.allSuccess = \A k \in 1..Len(steps_) : steps_[k]]
                  IN  IF \A k \in 1..Len(steps_) : ~steps_[k]
                        THEN FinishWorkflow(called)
                        ELSE called
             ELSE RunSequential(ws, 1)
  /\ UNCHANGED <<serverVars, call, state, runs>>

\* The fetch of step k settles: a response with status 200 (the stream), a
\* response with another status, or a rejection.
FetchResponds(k, response) ==
  /\ workflowState.stepPc[k] = "fetch"
  /\ workflowState' =
       IF response = "ok" THEN [workflowState EXCEPT !.stepPc[k] = "read"]
       ELSE StepReturns(workflowState, k, FALSE)
  /\ UNCHANGED <<serverVars, call, state, runs>>

\* reader.read() of step k reports done after the stream carried the
\* terminal event (success or failure), or rejects.
StreamEnds(k, terminal) ==
  /\ workflowState.stepPc[k] = "read"
  /\ workflowState' =
       IF terminal = "dropped" THEN StepReturns(workflowState, k, FALSE)
       ELSE StepReturns([workflowState EXCEPT !.served[k] = terminal], k, TRUE)
  /\ UNCHANGED <<serverVars, call, state, runs>>

(***************************************************************************)
(* Browser: handleRunCommand, executeCommandViaServer and cancelCommand.   *)
(* The handlers of a rejected or resolved promise run as microtasks before *)
(* the next event is handled: while a run is "aborted" no other handler    *)
(* starts.                                                                 *)
(***************************************************************************)
MicrotaskPending == \E r \in 1..Len(runs) : runs[r].pc = "aborted"

\* handleRunCommand() up to await executeCommandViaServer(); valid is the
\* verdict of the page's validateCommandOptions.
HandleRunCommand(valid) ==
  /\ ~MicrotaskPending
  /\ Len(runs) < MaxRuns
  /\ IF state.isRunning THEN UNCHANGED <<state, runs>>
     ELSE IF ~valid
       THEN /\ state' = [state EXCEPT !.isRunning = FALSE, !.status = "ready"]
            /\ UNCHANGED runs
     ELSE /\ runs' = Append(runs, NewRun)
          /\ state' = [state EXCEPT !.isRunning = TRUE, !.status = "running",
                                    !.abortController = Len(runs) + 1]
  /\ UNCHANGED <<serverVars, call, workflowState>>

\* The stream of run r carries its terminal event or ends (resolved), or the
\* request fails or the terminal event reports a failure (rejected);
\* handleRunCommand goes on after its await.
ServerResponds(r, resolved) ==
  /\ ~MicrotaskPending
  /\ r \in 1..Len(runs) /\ runs[r].pc = "pending"
  /\ runs' = [runs EXCEPT ![r] = SettledRun(runs[r], resolved)]
  /\ state' = AfterAwait(state, resolved)
  /\ UNCHANGED <<serverVars, call, workflowState>>

\* cancelCommand()
CancelCommand ==
  /\ ~MicrotaskPending
  /\ state.abortController # NoController
  /\ runs' = [runs EXCEPT ![state.abortController].pc = "aborted",
                          ![state.abortController].cancelled = TRUE]
  /\ state' = [state EXCEPT !.abortController = NoController, !.isRunning = FALSE,
                            !.status = "ready"]
  /\ UNCHANGED <<serverVars, call, workflowState>>

\* The AbortError of run r reaches the catch handlers of
\* executeCommandViaServer, which resolve the promise; handleRunCommand goes
\* on after its await.
AbortDelivered(r) ==
  /\ r \in 1..Len(runs) /\ runs[r].pc = "aborted"
  /\ runs' = [runs EXCEPT ![r] = SettledRun(runs[r], TRUE)]
  /\ state' = AfterAwait(state, TRUE)
  /\ UNCHANGED <<serverVars, call, workflowState>>

(***************************************************************************)
(* Specifications.                                                         *)
(***************************************************************************)
\* The server started with NODE_ENV=production.
InitProduction == Init /\ nodeEnv = "production"

\* One execution in production, from its request to the end of its stream.
Next ==
  \/ Tick
  \/ \E r \in RequestIds : ExecuteRequest(1, "192.168.1.1", r)
  \/ \E exists \in BOOLEAN : CliAccessed(1, exists)
  \/ \E chunk \in StdoutChunks : StdoutData(1, chunk)
  \/ \E chunk \in StderrChunks : StderrData(1, chunk)
  \/ \E code \in ExitCodes : ChildExit(1, code)
  \/ ChildClose(1)
  \/ ChildError(1)
  \/ ClientClose(1)

Spec == InitProduction /\ [][Next]_vars

\* Admission of one execute request among the other rate limited requests of
\* one client, up to the moment the child process is spawned.
NextAdmission ==
  \/ Tick
  \/ CheckLimit("192.168.1.1")
  \/ \E ip \in Clients, r \in RequestIds : ExecuteRequest(1, ip, r)
  \/ \E exists \in BOOLEAN : CliAccessed(1, exists)

SpecAdmission == Init /\ [][NextAdmission]_vars

\* The rate limiter alone, called directly as in the rate limiting tests.
NextLimiter ==
  \/ Tick
  \/ \E ip \in Clients : CheckLimit(ip)

SpecLimiter == Init /\ [][NextLimiter]_vars

\* One execution whose child may run into the timeout.
NextTimeout ==
  \/ Next
  \/ Timeout(1)

SpecTimeout == InitProduction /\ [][NextTimeout]_vars

\* Two executions of one client at the same time, at one clock value; the
\* second request arrives after the first.  MaxChunks bounds the data events
\* of both together.
NextConcurrent ==
  \/ ExecuteRequest(1, "192.168.1.1", 1)
  \/ pc[1] # "idle" /\ ExecuteRequest(2, "192.168.1.1", 1)
  \/ \E e \in Execs : CliAccessed(e, TRUE)
  \/ \E e \in Execs :
       /\ Len(received[1]) + Len(received[2]) < MaxChunks
       /\ StdoutData(e, Chunk_backup)
  \/ \E e \in Execs, code \in ExitCodes : ChildExit(e, code)
  \/ \E e \in Execs : ChildClose(e)
  \/ \E e \in Execs : ChildError(e)
  \/ \E e \in Execs : ClientClose(e)

SpecConcurrent == InitProduction /\ [][NextConcurrent]_vars

\* validateCommandOptions called directly on each command and option object.
InitValidate ==
  /\ InitServer
  /\ InitBrowser
  /\ nodeEnv = "production"
  /\ call \in {ValidatePending(i) : i \in ValidateInputs}

SpecValidate == InitValidate /\ [][CallValidate]_vars

\* validateAndSanitizeOptions called directly on each option object.
InitSanitize ==
  /\ InitServer
  /\ InitBrowser
  /\ nodeEnv = "production"
  /\ call \in {SanitizePending(o) : o \in SanitizeInputs \cup InternalInputs}

\* buildDataOpsArgs called directly on each command and option object.
InitBuild ==
  /\ InitServer
  /\ InitBrowser
  /\ nodeEnv = "production"
  /\ call \in {BuildPending(i) : i \in BuildInputs}

SpecBuild == InitBuild /\ [][CallBuild]_vars

\* parseProgressFromOutput called directly on each line.
InitClassify ==
  /\ InitServer
  /\ InitBrowser
  /\ nodeEnv = "production"
  /\ call \in {ClassifyPending(line) : line \in ClassifyLines}

SpecClassify == InitClassify /\ [][CallClassify]_vars

\* The page runs one workflow.
InitWorkflow ==
  /\ InitServer
  /\ nodeEnv = "production"
  /\ call = NoCall
  /\ workflowState \in {IdleWorkflow(w) : w \in Workflows}
  /\ state = ReadyState
  /\ runs = <<>>

NextWorkflow ==
  \/ RunWorkflow
  \/ \E k \in 1..MaxSteps, response \in {"ok", "httpError", "networkError"} :
       k <= Len(workflowState.workflow.steps) /\ FetchResponds(k, response)
  \/ \E k \in 1..MaxSteps, terminal \in {"success", "failure", "dropped"} :
       k <= Len(workflowState.workflow.steps) /\ StreamEnds(k, terminal)

SpecWorkflow == InitWorkflow /\ [][NextWorkflow]_vars

\* The page runs and cancels commands.
InitCommandRun ==
  /\ Init
  /\ nodeEnv = "production"

NextCommandRun ==
  \/ \E valid \in BOOLEAN : HandleRunCommand(valid)
  \/ \E r \in 1..MaxRuns, resolved \in BOOLEAN : ServerResponds(r, resolved)
  \/ CancelCommand
  \/ \E r \in 1..MaxRuns : AbortDelivered(r)

SpecCommandRun == InitCommandRun /\ [][NextCommandRun]_vars

NextSanitize ==
  \/ CallSanitize
  \/ CallSanitizeAgain
  \/ BuildSanitized

SpecSanitize == InitSanitize /\ [][NextSanitize]_vars


(***************************************************************************)
(* Properties.                                                             *)
(***************************************************************************)
TerminalIndexes(e) == {i \in 1..Len(written[e]) : IsTerminal(written[e][i])}

\* C1: once an execution streams, exactly one terminal message (complete or
\* error) is written to its response and no message of any type is written
\* after it, whatever the order of the child's 'error' and 'close' events,
\* further output and a client disconnect.
C1_TerminalOnceAndLast ==
  \A e \in Execs :
    /\ Cardinality(TerminalIndexes(e)) <= 1
    /\ \A i \in TerminalIndexes(e) : i = Len(written[e])
    /\ child[e] = "closed" => Cardinality(TerminalIndexes(e)) = 1

\* The request of execution e passes the sanitizer and then the validator.
SanitizerAccepts(r) ==
  /\ Requests[r].command.t = "string"
  /\ ~validateAndSanitizeOptions(Requests[r].command.s,
                                 OptionEntries(Requests[r].options)).threw
ValidatorAccepts(r) ==
  /\ SanitizerAccepts(r)
  /\ validateCommandOptions(
       Requests[r].command.s,
       validateAndSanitizeOptions(Requests[r].command.s,
                                  OptionEntries(Requests[r].options)).sanitized).valid

\* C2: a child process is spawned only after the sanitizer, the validator
\* and the CLI-exists check have succeeded, in that order, and at most once;
\* a request the sanitizer or the validator rejects spawns no process.
C2_SpawnOnlyAfterChecks ==
  \A e \in Execs :
    /\ spawnCount[e] > 0 =>
         /\ spawnCount[e] = 1
         /\ steps[e] = <<"sanitize", "validate", "access", "spawn">>
         /\ SanitizerAccepts(reqId[e]) /\ ValidatorAccepts(reqId[e])
         /\ status[e] = 0
    /\ (reqId[e] # 0 /\ ~ValidatorAccepts(reqId[e])) => spawnCount[e] = 0
    /\ pc[e] = "replied" => spawnCount[e] = 0

C2_Spawned ==
  /\ spawnCount[1] = 1
  /\ steps[1] = <<"sanitize", "validate", "access", "spawn">>

\* C3: when the client disconnects while the child process runs, kill is
\* called on the process and no output or progress message is written for
\* the execution afterwards.
C3_QuietAfterCancel ==
  \A e \in Execs :
    killed[e] =>
      /\ killCalls[e] >= 1
      /\ \A i \in (cancelIndex[e] + 1)..Len(written[e]) :
           written[e][i].type \notin {"output", "progress"}

\* C4: a request rejected by the rate limiter, the sanitizer, the validator
\* or for a missing CLI gets one JSON error reply and no stream message.
C4_RejectionNeverStreams ==
  \A e \in Execs :
    /\ status[e] # 0 =>
         /\ pc[e] = "replied"
         /\ status[e] \in {400, 429, 500}
         /\ body[e].error # ""
         /\ written[e] = <<>> /\ ~resEnded[e]
    /\ pc[e] = "replied" => status[e] # 0 /\ written[e] = <<>>
    /\ (pc[e] \notin {"idle", "access"} /\ ~ValidatorAccepts(reqId[e])) =>
         status[e] # 0 /\ written[e] = <<>>

\* The CLI was found missing after the sanitizer and the validator passed.
C4_RejectedForMissingCli ==
  /\ pc[1] = "replied"
  /\ steps[1] = <<"sanitize", "validate", "access">>
  /\ status[1] = 500

\* Checks of client c before its i-th one that were admitted less than the
\* window before it.
AdmittedInWindow(c, i) ==
  {j \in 1..(i - 1) :
     /\ checks[c][j].allowed
     /\ checks[c][i].at - checks[c][j].at < RATE_LIMIT_WINDOW}

\* C5: a check is admitted exactly when fewer than the maximum of the
\* client's earlier admitted checks lie within the window before it, and an
\* admitted check is recorded with its timestamp.
C5_SlidingWindow ==
  \A c \in Clients :
    /\ \A i \in 1..Len(checks[c]) :
         checks[c][i].allowed <=>
           Cardinality(AdmittedInWindow(c, i)) < RATE_LIMIT_MAX_REQUESTS
    /\ (Len(checks[c]) > 0 /\ checks[c][Len(checks[c])].allowed) =>
         /\ rateLimitMap[c] # <<>>
         /\ rateLimitMap[c][Len(rateLimitMap[c])] = checks[c][Len(checks[c])].at

\* The scenario of the specification: the first checks up to the maximum
\* are admitted, the next one, still inside the window, is rejected, and a
\* check after the window has passed is admitted again.
C5_RejectedThenAdmitted ==
  \E c \in Clients :
    /\ Len(checks[c]) = RATE_LIMIT_MAX_REQUESTS + 2
    /\ \A i \in 1..RATE_LIMIT_MAX_REQUESTS : checks[c][i].allowed
    /\ ~checks[c][RATE_LIMIT_MAX_REQUESTS + 1].allowed
    /\ checks[c][RATE_LIMIT_MAX_REQUESTS + 1].at - checks[c][1].at = RATE_LIMIT_WINDOW - 1
    /\ checks[c][RATE_LIMIT_MAX_REQUESTS + 2].allowed

\* Timestamps of client c that a check at the current time would count.
RecentCount(c) ==
  Len(SelectSeq(rateLimitMap[c], LAMBDA ts : now - ts < RATE_LIMIT_WINDOW))

\* C6: a check of one client never changes the timestamps of another; when
\* one client has used its quota and another has not, the next check of the
\* first is rejected and the next check of the second admitted.
C6_PerClientState ==
  /\ [][\A a \in Clients :
          checks'[a] # checks[a] =>
            \A b \in Clients \ {a} : rateLimitMap'[b] = rateLimitMap[b]]_vars
  /\ [](\A a \in Clients : \A b \in Clients \ {a} :
          (/\ RecentCount(a) >= RATE_LIMIT_MAX_REQUESTS
           /\ RecentCount(b) < RATE_LIMIT_MAX_REQUESTS) =>
            /\ ~checkRateLimit(rateLimitMap, a, now).allowed
            /\ checkRateLimit(rateLimitMap, b, now).allowed)

C6_OneClientExhausted ==
  \E a \in Clients : \E b \in Clients \ {a} :
    /\ RecentCount(a) >= RATE_LIMIT_MAX_REQUESTS
    /\ Len(checks[a]) > RATE_LIMIT_MAX_REQUESTS
    /\ ~checks[a][Len(checks[a])].allowed
    /\ Len(checks[b]) > 0
    /\ checks[b][Len(checks[b])].allowed
    /\ checks[b][Len(checks[b])].at >= checks[a][Len(checks[a])].at

\* Requests with a two-token command and an options object that the
\* sanitizer or the validator rejects.
FailsServerValidation(r) ==
  /\ Requests[r].command.t = "string"
  /\ Len(split(Requests[r].command.s, " ")) = 2
  /\ Requests[r].options.t = "object"
  /\ ~ValidatorAccepts(r)

\* C7: a request with a well-formed command whose options fail the server's
\* validation is answered with status 400 and a body with an error field.
C7_ValidationFailureIs400 ==
  \A e \in Execs :
    (pc[e] = "replied" /\ FailsServerValidation(reqId[e]) /\ status[e] # 429) =>
      status[e] = 400 /\ body[e].error # ""

\* C8: the close handler writes exactly one message, a complete message:
\* success for exit code 0, failure naming the code for any other code, and
\* never an error message.
C8_CloseWritesComplete ==
  [][\A e \in Execs :
       (child[e] # "closed" /\ child'[e] = "closed") =>
         /\ Len(written'[e]) = Len(written[e]) + 1
         /\ SubSeq(written'[e], 1, Len(written[e])) = written[e]
         /\ LET last == written'[e][Len(written'[e])]
            IN  /\ last.type = "complete"
                /\ last.success = (exitCode[e] = 0)
                /\ exitCode[e] = 0 => last.msg = "Command completed successfully"
                /\ exitCode[e] # 0 =>
                     last.msg = "Command exited with code " /\ last.code = exitCode[e]]_vars

C8_ClosedAfterFailure ==
  /\ child[1] = "closed"
  /\ exitCode[1] = 1
  /\ written[1][Len(written[1])].type = "complete"
  /\ ~written[1][Len(written[1])].success

\* C9: the connected message is the first message of every stream and
\* occurs exactly once; a streaming execution has written it.
C9_ConnectedFirstOnce ==
  \A e \in Execs :
    /\ pc[e] = "streaming" => Len(written[e]) >= 1
    /\ Len(written[e]) >= 1 => written[e][1].type = "connected"
    /\ \A i \in 2..Len(written[e]) : written[e][i].type # "connected"

C9_StreamWithOutput ==
  /\ Len(written[1]) >= 3
  /\ written[1][1].type = "connected"
  /\ \E i \in 2..Len(written[1]) : written[1][i].type = "progress"
  /\ \E i \in 2..Len(written[1]) : written[1][i].type = "complete"

RECURSIVE ExpectedOutputs(_)
\* One output message per line that is not blank, level info for stdout and
\* error for stderr, in the order of arrival.
ExpectedOutputs(data) ==
  IF data = <<>> THEN <<>>
  ELSE LET lines == SelectLines(split(Head(data).data, "\n"))
           level == IF Head(data).stream = "stdout" THEN "info" ELSE "error"
       IN  [i \in 1..Len(lines) |->
              [level |-> level, text |-> lines[i]]] \o ExpectedOutputs(Tail(data))

OutputsWritten(e) ==
  LET outputs == SelectSeq(written[e], LAMBDA m : m.type = "output")
  IN  [i \in 1..Len(outputs) |-> [level |-> outputs[i].level, text |-> outputs[i].text]]

\* C10: every line of a stdout or stderr chunk that is not blank yields
\* exactly one output message (info or error), in the order of the lines,
\* and a progress message always comes with the output message of its line.
C10_OneOutputPerLine ==
  \A e \in Execs :
    /\ OutputsWritten(e) = ExpectedOutputs(received[e])
    /\ \A i \in 1..Len(written[e]) :
         written[e][i].type = "progress" =>
           /\ i < Len(written[e])
           /\ written[e][i + 1].type = "output"
           /\ written[e][i + 1].level = "info"
           /\ written[e][i + 1].text = written[e][i].text

C10_ProgressAndOutputs ==
  /\ Len(received[1]) = 2
  /\ received[1][1].stream = "stdout" /\ received[1][2].stream = "stderr"
  /\ \E i \in 1..Len(written[1]) : written[1][i].type = "progress"
  /\ Len(OutputsWritten(1)) = 4

(***************************************************************************)
(* C11: within one execution any two progress messages written to the      *)
(* stream are more than PROGRESS_INTERVAL apart on the server clock: a     *)
(* step writes at most one progress message, and writes it only when the   *)
(* latest progress message before it is more than the interval old.        *)
(***************************************************************************)
ProgressCount(msgs) == Cardinality({i \in 1..Len(msgs) : msgs[i].type = "progress"})

C11_ProgressThrottled ==
  [][\A e \in Execs :
       LET new == SubSeq(written'[e], Len(written[e]) + 1, Len(written'[e]))
       IN  /\ ProgressCount(new) <= 1
           /\ (ProgressCount(new) = 1 /\ progressAt[e] # NoTime) =>
                 now' - progressAt[e] > PROGRESS_INTERVAL]_vars

\* Two progress messages were written to one stream.
C11_TwoProgressMessages ==
  /\ ProgressCount(written[1]) = 2
  /\ Len(received[1]) = 2

(***************************************************************************)
(* C12: when the child ran into the timeout and its stream was closed, the *)
(* stream holds a terminal message that reports a failure and whose text   *)
(* describes the timeout.                                                  *)
(***************************************************************************)
\* The only text of the server that speaks of a timeout.
TimeoutMessage ==
  "Command execution timed out. The operation may be taking longer than expected."

C12_TimeoutReported ==
  \A e \in Execs :
    (timedOut[e] /\ child[e] = "closed") =>
      /\ killed[e]
      /\ \E i \in TerminalIndexes(e) :
            /\ ~written[e][i].success
            /\ written[e][i].msg = TimeoutMessage

(***************************************************************************)
(* C13: two concurrent executions are independent.  A step in which one    *)
(* execution is cancelled, fails, completes or relays output sends no kill *)
(* to the other's process, does not end the other's response, writes       *)
(* nothing to the other's stream and leaves the other's progress throttle. *)
(***************************************************************************)
\* What belongs to execution e: its request, response, process and throttle.
ExecutionState(e) ==
  <<pc[e], reqId[e], status[e], body[e], written[e], resEnded[e], endIndex[e],
    spawnCount[e], child[e], exitCode[e], killed[e], killCalls[e], received[e],
    errors[e], lastProgressUpdate[e], clientClosed[e], cancelIndex[e]>>

C13_ExecutionsIndependent ==
  [][\A a \in Execs : \A b \in Execs \ {a} :
       ExecutionState(a)' # ExecutionState(a) =>
         /\ killCalls'[b] = killCalls[b] /\ killed'[b] = killed[b]
         /\ child'[b] = child[b]
         /\ resEnded'[b] = resEnded[b]
         /\ written'[b] = written[b]
         /\ lastProgressUpdate'[b] = lastProgressUpdate[b]]_vars

\* The first execution was cancelled and closed while the second one of the
\* same client ran on to a successful end.
C13_OneCancelledOtherCompleted ==
  /\ clientIp[1] = clientIp[2]
  /\ killed[1] /\ child[1] = "closed"
  /\ ~killed[2] /\ child[2] = "closed" /\ exitCode[2] = 0
  /\ cancelIndex[1] # NoIndex /\ cancelIndex[2] = NoIndex
  /\ Len(received[2]) >= 1

(***************************************************************************)
(* C14: a kill requested when the child has already exited, or when a kill *)
(* was already delivered, is a no-op.  The disconnect of a client whose    *)
(* child is gone or already killed changes no state of the process, raises *)
(* no error and writes nothing to the stream.                              *)
(***************************************************************************)
C14_LateKillIsNoOp ==
  [][\A e \in Execs :
       (/\ ~clientClosed[e] /\ clientClosed'[e]
        /\ child[e] \in {"exited", "closed"} \/ killed[e]) =>
         /\ child'[e] = child[e] /\ exitCode'[e] = exitCode[e]
         /\ killed'[e] = killed[e]
         /\ errors'[e] = errors[e]
         /\ written'[e] = written[e] /\ resEnded'[e] = resEnded[e]]_vars

\* The client disconnected after the terminal message of a child that ended
\* by itself: kill was called on the process that is gone.
C14_DisconnectAfterTerminal ==
  /\ clientClosed[1] /\ killCalls[1] = 1 /\ ~killed[1] /\ ~timedOut[1]
  /\ child[1] = "closed"
  /\ cancelIndex[1] = Len(written[1])
  /\ cancelIndex[1] = endIndex[1]

(***************************************************************************)
(* Option shapes of a direct call of validateCommandOptions.               *)
(***************************************************************************)
\* The option is present and not empty: a string with a character, an array,
\* or the boolean true.
Given(options, key) ==
  \E i \in 1..Len(options) :
    /\ options[i].key = key
    /\ options[i].value.t = "string" => Len(options[i].value.s) > 0
    /\ options[i].value.t = "boolean" => options[i].value.b

\* The option is an array with at least one element.
GivenList(options, key) ==
  \E i \in 1..Len(options) :
    /\ options[i].key = key
    /\ options[i].value.t = "array" /\ Len(options[i].value.a) > 0

\* The option is a string with a character that is not white space.
GivenText(options, key) ==
  \E i \in 1..Len(options) :
    /\ options[i].key = key
    /\ options[i].value.t = "string"
    /\ \E k \in 1..Len(options[i].value.s) : ~IsSpaceChar(options[i].value.s[k])

Validated(command) ==
  call.fn = "validateCommandOptions" /\ call.done /\ call.command = command

(***************************************************************************)
(* C15: for 'sync run' and 'sync diff' with their other required options   *)
(* present, validateCommandOptions accepts exactly when a source id or a   *)
(* folder is given and a given source id comes with its key: it accepts    *)
(* id+key, folder only and id+key+folder, rejects neither id nor folder,   *)
(* and rejects an id without key even beside a folder.                     *)
(***************************************************************************)
OtherRequiredGiven ==
  /\ Given(call.options, K_targetEnvironmentId) /\ Given(call.options, K_targetApiKey)
  /\ call.command = Cmd_sync_run => GivenList(call.options, K_entities)
  /\ (call.command = Cmd_sync_diff /\ Given(call.options, K_advanced)) =>
       GivenText(call.options, K_outPath)

C15_SourceShapes ==
  ((Validated(Cmd_sync_run) \/ Validated(Cmd_sync_diff)) /\ OtherRequiredGiven) =>
    (call.result.valid <=>
       /\ Given(call.options, K_sourceEnvironmentId) \/ Given(call.options, K_folderName)
       /\ Given(call.options, K_sourceEnvironmentId) => Given(call.options, K_sourceApiKey))

\* 'sync diff' with a source id, a folder and no source key was rejected.
C15_IdWithoutKeyBesideFolder ==
  /\ Validated(Cmd_sync_diff) /\ OtherRequiredGiven
  /\ Given(call.options, K_sourceEnvironmentId) /\ Given(call.options, K_folderName)
  /\ ~Given(call.options, K_sourceApiKey)
  /\ ~call.result.valid

(***************************************************************************)
(* C16: validateCommandOptions fails for every command that is not one of  *)
(* the declared commands, a known domain with an undeclared action too.    *)
(***************************************************************************)
DeclaredCommands ==
  {Cmd_environment_backup, Cmd_environment_restore, Cmd_environment_clean,
   Cmd_sync_run, Cmd_sync_snapshot, Cmd_sync_diff}

C16_UndeclaredCommandFails ==
  (call.fn = "validateCommandOptions" /\ call.done /\ call.command \notin DeclaredCommands) =>
    ~call.result.valid

(***************************************************************************)
(* C17: validateCommandOptions succeeds only if every unconditionally      *)
(* required option is present and not empty: environmentId and apiKey for  *)
(* 'environment backup' and 'environment clean', fileName too for          *)
(* 'environment restore', and targetEnvironmentId, targetApiKey and a      *)
(* non-empty entities array for 'sync run'.                                *)
(***************************************************************************)
C17_RequiredOptions ==
  (call.fn = "validateCommandOptions" /\ call.done /\ call.result.valid) =>
    /\ call.command \in {Cmd_environment_backup, Cmd_environment_clean, Cmd_environment_restore} =>
         Given(call.options, K_environmentId) /\ Given(call.options, K_apiKey)
    /\ call.command = Cmd_environment_restore => Given(call.options, K_fileName)
    /\ call.command = Cmd_sync_run =>
         /\ Given(call.options, K_targetEnvironmentId)
         /\ Given(call.options, K_targetApiKey)
         /\ GivenList(call.options, K_entities)

\* 'sync run' was rejected for an entities option that is not an array, with
\* everything else it needs.
C17_EntitiesNotAnArray ==
  /\ Validated(Cmd_sync_run) /\ ~call.result.valid
  /\ Given(call.options, K_targetEnvironmentId) /\ Given(call.options, K_targetApiKey)
  /\ Given(call.options, K_entities) /\ ~GivenList(call.options, K_entities)
  /\ Given(call.options, K_folderName) /\ ~Given(call.options, K_sourceEnvironmentId)

(***************************************************************************)
(* C18: for 'sync diff' with the advanced flag true, validateCommandOptions *)
(* fails unless outPath is present and not empty after trimming; with the  *)
(* flag false or absent it never fails for outPath.                        *)
(***************************************************************************)
\* The option object of the call without its outPath.
WithoutOutPath ==
  LET Other(e) == e.key # K_outPath IN SelectSeq(call.options, Other)

C18_AdvancedNeedsOutPath ==
  Validated(Cmd_sync_diff) =>
    /\ (Given(call.options, K_advanced) /\ ~GivenText(call.options, K_outPath)) =>
         ~call.result.valid
    /\ ~Given(call.options, K_advanced) =>
         call.result.valid = validateCommandOptions(Cmd_sync_diff, WithoutOutPath).valid

\* 'sync diff' with the advanced flag was rejected only for an outPath of
\* white space.
C18_BlankOutPath ==
  /\ Validated(Cmd_sync_diff) /\ ~call.result.valid
  /\ Given(call.options, K_advanced)
  /\ Given(call.options, K_outPath) /\ ~GivenText(call.options, K_outPath)
  /\ Given(call.options, K_targetEnvironmentId) /\ Given(call.options, K_targetApiKey)
  /\ Given(call.options, K_folderName) /\ ~Given(call.options, K_sourceEnvironmentId)

(***************************************************************************)
(* C19: validateAndSanitizeOptions fails for every option object in which  *)
(* a key whose name contains filename, file_name, outpath or folder has a  *)
(* present value that contains '..' anywhere, contains a NUL byte, is      *)
(* empty after trimming, or is not under 500 characters long.              *)
(***************************************************************************)
Sanitized == call.fn = "validateAndSanitizeOptions" /\ call.done

PathLikeKey(key) ==
  \E word \in {S_filename, S_file_name, S_outpath, S_folder} :
    \E i \in 0..Len(key) :
      /\ i + Len(word) <= Len(key)
      /\ \A k \in 1..Len(word) : ToLowerChar(key[i + k]) = word[k]

UnsafePath(s) ==
  \/ \E i \in 1..(Len(s) - 1) : s[i] = "." /\ s[i + 1] = "."
  \/ \E i \in 1..Len(s) : s[i] = "NUL"
  \/ \A i \in 1..Len(s) : IsSpaceChar(s[i])
  \/ Len(s) >= DefaultMaxLength

C19_UnsafePathFails ==
  Sanitized =>
    \A i \in 1..Len(call.options) :
      (/\ PathLikeKey(call.options[i].key)
       /\ call.options[i].value.t = "string"
       /\ UnsafePath(call.options[i].value.s)) => call.result.threw

(***************************************************************************)
(* C20: validateAndSanitizeOptions checks every key before it fails: the   *)
(* error lists every violation, one per violated rule per key and nothing  *)
(* else; with no violation the call returns the options with their         *)
(* strings trimmed.                                                        *)
(***************************************************************************)
Rules ==
  {" must be a valid UUID format", " appears to be invalid",
   " contains invalid characters or path traversal attempt"}

\* The entry breaks the rule: its key names the kind of field and its value
\* is present and fails the validator of that kind.
Violates(e, rule) ==
  LET key == toLowerCase(e.key)
      Names(word) == includes(key, word)
  IN  /\ ~startsWith(e.key, <<"_">>)
      /\ Truthy(e.value)
      /\ CASE rule = " must be a valid UUID format" ->
                /\ Names(S_environmentid) \/ Names(S_environment_id)
                /\ ~validateEnvironmentId(e.value)
            [] rule = " appears to be invalid" ->
                /\ Names(S_apikey) \/ Names(S_api_key)
                /\ ~validateApiKey(e.value, DefaultMinLength)
            [] OTHER ->
                /\ Names(S_filename) \/ Names(S_file_name) \/ Names(S_outpath) \/ Names(S_folder)
                /\ ~validateFilePath(e.value, DefaultMaxLength)

Violations ==
  {<<i, rule>> \in (1..Len(call.options)) \X Rules : Violates(call.options[i], rule)}

C20_AllViolationsListed ==
  Sanitized =>
    /\ call.result.threw <=> Violations # {}
    /\ Len(call.result.errors) = Cardinality(Violations)
    /\ \A v \in Violations :
         \E k \in 1..Len(call.result.errors) :
           call.result.errors[k] = [key |-> call.options[v[1]].key, rule |-> v[2]]
    /\ ~call.result.threw =>
         /\ Len(call.result.sanitized) = Len(call.options)
         /\ \A i \in 1..Len(call.options) :
              /\ call.result.sanitized[i].key = call.options[i].key
              /\ (call.options[i].value.t = "string"
                    /\ ~startsWith(call.options[i].key, <<"_">>)) =>
                   call.result.sanitized[i].value = Str(trim(call.options[i].value.s))

\* The call failed with four violations at three keys, two of them at one key.
C20_ManyViolations ==
  /\ Sanitized /\ call.result.threw
  /\ Len(call.result.errors) = 4
  /\ Cardinality({call.result.errors[k].key : k \in 1..Len(call.result.errors)}) = 3

Built == call.fn = "buildDataOpsArgs" /\ call.done

InternalKey(key) == key # <<>> /\ key[1] = "_"

\* The number of tokens the claim gives to one option.
TokensOf(e) ==
  IF InternalKey(e.key) THEN 0
  ELSE CASE e.value.t = "array" -> 2 * Len(e.value.a)
         [] e.value.t = "boolean" -> IF e.value.b THEN 1 ELSE 0
         [] e.value.t \in {"null", "undefined", "object"} -> 0
         [] e.value.t = "string" -> IF e.value.s = <<>> THEN 0 ELSE 2

RECURSIVE TokensOfAll(_)
TokensOfAll(entries) ==
  IF entries = <<>> THEN 0 ELSE TokensOf(Head(entries)) + TokensOfAll(Tail(entries))

\* The number of words of a command: one more than its spaces.
WordCount(command) == 1 + Cardinality({i \in 1..Len(command) : command[i] = " "})

C22_TokensPerOption ==
  Built => Len(call.result) = WordCount(call.command) + TokensOfAll(call.options)

\* An array of two elements was the only option: four tokens follow the
\* two words of the command.
C22_ArrayOfTwo ==
  /\ Built
  /\ call.command = Cmd_sync_run
  /\ Len(call.options) = 1
  /\ call.options[1].value = Arr(<<V_contentTypes, V_taxonomies>>)
  /\ Len(call.result) = 6

(***************************************************************************)
(* C23: the argv starts with the words of the command in their order; the  *)
(* tokens of the emitted options follow in the iteration order of the      *)
(* options, every value right after its own flag.                          *)
(***************************************************************************)
\* The tokens of one emitted option: its flag alone for true, otherwise its
\* flag before each of its values.
IsSegmentOf(segment, e) ==
  LET values == IF e.value.t = "array" THEN e.value.a ELSE <<e.value.s>>
  IN  IF e.value.t = "boolean" THEN segment = <<Flag(e.key)>>
      ELSE /\ Len(segment) = 2 * Len(values)
           /\ \A j \in 1..Len(values) :
                /\ segment[2 * j - 1] = Flag(e.key)
                /\ segment[2 * j] = values[j]

RECURSIVE InIterationOrder(_, _)
InIterationOrder(tokens, emitted) ==
  IF emitted = <<>> THEN tokens = <<>>
  ELSE LET n == TokensOf(Head(emitted))
       IN  /\ Len(tokens) >= n
           /\ IsSegmentOf(SubSeq(tokens, 1, n), Head(emitted))
           /\ InIterationOrder(SubSeq(tokens, n + 1, Len(tokens)), Tail(emitted))

C23_CommandThenOptionsInOrder ==
  Built =>
    LET words == WordCount(call.command)
        Emitted(e) == TokensOf(e) > 0
    IN  /\ Len(call.result) >= words
        /\ join(SubSeq(call.result, 1, words), <<" ">>) = call.command
        /\ \A i \in 1..words : ~includes(call.result[i], <<" ">>)
        /\ InIterationOrder(SubSeq(call.result, words + 1, Len(call.result)),
                            SelectSeq(call.options, Emitted))

\* 'environment backup' with environmentId and then apiKey.
C23_EnvironmentBackupArgv ==
  /\ Built
  /\ call.command = Cmd_environment_backup
  /\ call.options = <<Entry(K_environmentId, Str(V_uuid)), Entry(K_apiKey, Str(V_apiKey))>>
  /\ call.result = <<W_environment, W_backup, F_environment_id, V_uuid, F_api_key, V_apiKey>>

(***************************************************************************)
(* C26: an option whose key starts with '_' never makes                    *)
(* validateAndSanitizeOptions fail, is returned with its value unchanged,  *)
(* and adds no token to the argv of buildDataOpsArgs.                      *)
(***************************************************************************)
C26_InternalOptionsPassThrough ==
  /\ Sanitized =>
       /\ \A i \in 1..Len(call.result.errors) : ~InternalKey(call.result.errors[i].key)
       /\ call.result.threw => call.result.errors # <<>>
       /\ ~call.result.threw =>
            /\ Len(call.result.sanitized) = Len(call.options)
            /\ \A i \in 1..Len(call.options) :
                 InternalKey(call.options[i].key) =>
                   call.result.sanitized[i] = call.options[i]
  /\ Built =>
       LET Public(e) == ~InternalKey(e.key)
       IN  call.result = buildDataOpsArgs(call.command, SelectSeq(call.options, Public))

\* Internal options named like an API key and a file name, with values the
\* validators would reject or trim, went through both functions.
C26_InternalValuesKept ==
  /\ Built
  /\ Get(call.options, K_internalApiKey) = Str(V_short)
  /\ Get(call.options, K_internalFileName) = Str(V_paddedZip)
  /\ Get(call.options, K_internalProfile) = Bool(TRUE)
  /\ call.result = <<W_environment, W_restore, F_environment_id, V_uuid>>

(***************************************************************************)
(* C24: every progress signal has a percent from 0 to 100: the progress    *)
(* messages the server writes, and the percent parseProgressFromOutput     *)
(* returns for a line 'N of M' or 'N/M' with N >= 0 and M > 0.             *)
(***************************************************************************)
Classified == call.fn = "parseProgressFromOutput" /\ call.done

ServerPercentInRange ==
  \A e \in Execs :
    \A i \in 1..Len(written[e]) :
      written[e][i].type = "progress" => written[e][i].percent \in 0..100

\* The line is 'N of M' or 'N/M' with M > 0.
IsRatioLine(line) ==
  \E n \in 0..150, total \in 1..100, sep \in {<<" ", "o", "f", " ">>, <<"/">>} :
    line = DecimalText(n) \o sep \o DecimalText(total)

C24_PercentInRange ==
  /\ ServerPercentInRange
  /\ (Classified /\ IsRatioLine(call.message)) =>
       /\ call.result.t = "percent"
       /\ 0 <= call.result.num
       /\ call.result.num <= 100 * call.result.den

(***************************************************************************)
(* C25: parseProgressFromOutput tries the numeric patterns in the order    *)
(* 'N% / M', 'N of M', 'Progress: N%', 'N/M', '[N%]' and returns the       *)
(* percent of the first one that matches (100 * N / M for two numbers with *)
(* M > 0, N for one number); when none does, it returns the label of the   *)
(* first stage word that the line contains, without a percent; otherwise   *)
(* nothing.                                                                *)
(***************************************************************************)
NumericOrder ==
  <<Pattern_percent_of, Pattern_n_of_m, Pattern_progress, Pattern_slash, Pattern_bracket>>

\* The pattern matches the line and gives a percent.
GivesPercent(pattern, line) ==
  LET match == Match(pattern, line)
  IN  match.matched /\ (Len(match.caps) = 2 => parseInt(match.caps[2]) > 0)

PercentOf(pattern, line) ==
  LET caps == Match(pattern, line).caps
  IN  IF Len(caps) = 2 THEN <<100 * parseInt(caps[1]), parseInt(caps[2])>>
      ELSE <<parseInt(caps[1]), 1>>

HasStageWord(k, line) == includes(toLowerCase(line), stagePatterns[k].pattern[1][1].text)

C25_FirstMatchWins ==
  Classified =>
    LET line == call.message
        Numeric == {k \in 1..Len(NumericOrder) : GivesPercent(NumericOrder[k], line)}
        Stages == {k \in 1..Len(stagePatterns) : HasStageWord(k, line)}
        First(S) == CHOOSE k \in S : \A j \in S : k <= j
    IN  IF Numeric # {}
          THEN /\ call.result.t = "percent"
               /\ <<call.result.num, call.result.den>> = PercentOf(NumericOrder[First(Numeric)], line)
        ELSE IF Stages # {}
          THEN /\ call.result.t = "stage"
               /\ call.result.stage = stagePatterns[First(Stages)].stage
        ELSE call.result.t = "null"

\* A line where 'N/M' stands before 'N of M': the percent is that of 'N of M'.
C25_LaterInLineEarlierInOrder ==
  /\ Classified
  /\ call.message = <<"1", "/", "2", " ", "t", "h", "e", "n", " ", "3", " ", "o", "f", " ", "4">>
  /\ call.result.t = "percent"
  /\ call.result.num = 300 /\ call.result.den = 4

(***************************************************************************)
(* C27: a sequential workflow starts a step only after the step before it  *)
(* has returned; with stop-on-error no step is executed after a step whose *)
(* command failed, a command that ended with a failure terminal event      *)
(* included; without stop-on-error every step runs and a workflow with a   *)
(* failed command is reported as completed with errors.                    *)
(***************************************************************************)
StepCount == Len(workflowState.workflow.steps)

\* The command of step k failed: the step returned false, or its stream
\* carried a failure as its terminal event.
CommandFailed(k) ==
  workflowState.stepPc[k] = "false" \/ workflowState.served[k] = "failure"

C27_SequentialWorkflow ==
  workflowState.workflow.executionMode = "sequential" =>
    /\ \A k \in 2..StepCount :
         workflowState.stepPc[k] # "pending" =>
           workflowState.stepPc[k - 1] \in {"true", "false"}
    /\ workflowState.workflow.stopOnError =>
         \A k \in 1..StepCount, j \in 1..StepCount :
           (k < j /\ CommandFailed(k)) => workflowState.stepPc[j] = "pending"
    /\ (~workflowState.workflow.stopOnError /\ workflowState.report # "none") =>
         /\ \A k \in 1..StepCount : workflowState.stepPc[k] \in {"true", "false"}
         /\ (\E k \in 1..StepCount : CommandFailed(k)) => workflowState.report = "errors"

(***************************************************************************)
(* C30: a command cancelled while it runs ends as cancelled: its run is    *)
(* never reported with status 'success' and never saved to the history as  *)
(* successful, the page shows 'ready' while the cancelled run is the       *)
(* latest one, and at most one run is in flight at any time.               *)
(***************************************************************************)
C30_CancelledRunNotSuccessful ==
  /\ \A r \in 1..Len(runs) :
       runs[r].cancelled => (runs[r].reported # "success" /\ runs[r].saved # "success")
  /\ (runs # <<>> /\ runs[Len(runs)].cancelled /\ ~state.isRunning) => state.status = "ready"
  /\ Cardinality({r \in 1..Len(runs) : runs[r].pc = "pending"}) <= 1

(***************************************************************************)
(* C28: a rejected check leaves the rate-limit state as it was: no         *)
(* timestamp is stored for it, rejected attempts do not postpone the       *)
(* re-admission of the client (the first check made once the oldest        *)
(* counted request has left the window is admitted), and the list stored   *)
(* for a client never holds more than the maximum of timestamps.           *)
(***************************************************************************)
\* The time of the oldest admitted check that the i-th check of c counted.
OldestCounted(c, i) ==
  LET times == {checks[c][j].at : j \in AdmittedInWindow(c, i)}
  IN  CHOOSE t \in times : \A u \in times : t <= u

C28_RejectedCheckChangesNothing ==
  /\ [][\A c \in Clients :
          (/\ Len(checks'[c]) > Len(checks[c])
           /\ ~checks'[c][Len(checks'[c])].allowed) => rateLimitMap' = rateLimitMap]_vars
  /\ [](\A c \in Clients :
          /\ Len(rateLimitMap[c]) <= RATE_LIMIT_MAX_REQUESTS
          /\ \A j \in 1..Len(checks[c]) : \A i \in (j + 1)..Len(checks[c]) :
               (/\ ~checks[c][j].allowed
                /\ checks[c][i].at - OldestCounted(c, j) >= RATE_LIMIT_WINDOW
                /\ \A k \in (j + 1)..(i - 1) :
                     checks[c][k].at - OldestCounted(c, j) < RATE_LIMIT_WINDOW)
               => checks[c][i].allowed)

\* A client was rejected twice and admitted again as soon as its oldest
\* request had left the window.
C28_RejectedTwiceThenAdmitted ==
  \E c \in Clients :
    /\ Len(checks[c]) = RATE_LIMIT_MAX_REQUESTS + 3
    /\ ~checks[c][RATE_LIMIT_MAX_REQUESTS + 1].allowed
    /\ ~checks[c][RATE_LIMIT_MAX_REQUESTS + 2].allowed
    /\ checks[c][RATE_LIMIT_MAX_REQUESTS + 2].at > checks[c][RATE_LIMIT_MAX_REQUESTS + 1].at
    /\ checks[c][RATE_LIMIT_MAX_REQUESTS + 3].allowed
    /\ checks[c][RATE_LIMIT_MAX_REQUESTS + 3].at - checks[c][1].at = RATE_LIMIT_WINDOW
    /\ Len(rateLimitMap[c]) = RATE_LIMIT_MAX_REQUESTS

(***************************************************************************)
(* C29: every line the child wrote to stdout or stderr yields exactly one  *)
(* output message with the whole line, however the stream was cut into     *)
(* chunks: a line that arrived in two chunks is not written as two output  *)
(* messages.                                                               *)
(***************************************************************************)
RECURSIVE StreamText(_, _)
\* What the child wrote to one stream: its chunks put together.
StreamText(data, stream) ==
  IF data = <<>> THEN <<>>
  ELSE (IF Head(data).stream = stream THEN Head(data).data ELSE <<>>)
       \o StreamText(Tail(data), stream)

OutputTexts(e, level) ==
  LET outputs == SelectSeq(written[e], LAMBDA m : m.type = "output" /\ m.level = level)
  IN  [i \in 1..Len(outputs) |-> outputs[i].text]

C29_OneOutputPerWrittenLine ==
  \A e \in Execs :
    child[e] = "closed" =>
      /\ OutputTexts(e, "info") = SelectLines(split(StreamText(received[e], "stdout"), "\n"))
      /\ OutputTexts(e, "error") = SelectLines(split(StreamText(received[e], "stderr"), "\n"))

=============================================================================
